---- MODULE Spec2Model ----
(***************************************************************************)
(* Model of the flashcard pipeline core: the Queue Store                   *)
(* (core/src/database/repositories/queue.rs), the Cache Store              *)
(* (core/src/cache_manager.rs, core/src/database/repositories/cache.rs)    *)
(* and the Batch Orchestrator (pipeline/src/batch_processor.rs).           *)
(***************************************************************************)
EXTENDS Integers, Sequences, FiniteSets, TLC

(***************************************************************************)
(* Bounds of the model.                                                    *)
(***************************************************************************)
\* rows the processing_queue table may hold
MaxRows == 2
\* Queue Store calls made in one behaviour
MaxCalls == 5

\* get_or_compute calls started in one behaviour
MaxCacheCalls == 2
\* items of the batch handed to process_batch
NumItems == 2
\* items of the batch a second, overlapping process_batch call is handed
MaxOtherItems == 1
\* transitions applied to one QueueItem and to the row it mirrors
MaxTransitions == 2
\* largest max_concurrent a BatchProcessor is built with
MaxConcurrent == 2
\* longest item list handed to warm_cache_for_batch
MaxWarmItems == 2
\* longest term and translation of the items whose keys are derived
MaxFieldLen == 2
\* derivations of one item's keys in one behaviour
MaxKeyCalls == 2

(***************************************************************************)
(* Program constants.                                                      *)
(***************************************************************************)
\* max_retries written by enqueue_batch's INSERT
DefaultMaxRetries == 3
\* mpsc::channel(100)
ChannelCapacity == 100

BatchIds == {"b1", "b2"}

\* ProcessingStatus and ProcessingStage (models/queue.rs)
ProcessingStatus == {"Pending", "InProgress", "Completed", "Failed", "Quarantined"}
ProcessingStage == {"Stage1", "Stage2", "Complete"}

None == "None"

VARIABLES
    queue,           \* processing_queue: committed rows, row id = index
    batch_metadata,  \* batch_metadata: committed rows
    tx,              \* the open enqueue_batch transaction (uncommitted writes)
    ret,             \* what the last Queue Store call returned
    calls,           \* number of Queue Store calls made so far
    stage1_cache,    \* stage1_cache: rows in insertion order
    stage2_cache,    \* stage2_cache: rows in insertion order
    cache_metrics,   \* cache_metrics: hit_count and miss_count per cache type
    call,            \* the get_or_compute call of each caller, and where it stands
    cacheCalls,      \* number of get_or_compute calls started so far
    computedKeys,    \* keys some call looked up, missed, computed and returned Ok for
    failedKeys,      \* keys some call looked up and whose producer then failed
    max_concurrent,  \* BatchProcessor::new's max_concurrent
    semaphore,       \* permits the semaphore has available
    quarantined_ids, \* history: the ids of the rows that have been quarantined
    worker,          \* each queue worker: what it asked for, got and has claimed
    cache_op,        \* the last clear_cache / get_cache_stats call and where it stands
    item_status,     \* the queue status of each item of the batch
    progress,        \* ProcessingProgress behind the RwLock
    unit,            \* the spawned task of each item, and where it stands
    channel,         \* (item, result) messages sent and not yet received
    main,            \* process_batch itself: where it stands and what it collected
    key_items,       \* the two items whose keys are derived
    key_results,     \* the keys the latest derivation gave for each of them
    key_calls,       \* how often the keys of each of them were derived
    processing_checkpoints, \* processing_checkpoints: rows in insertion order
    other,           \* a second process_batch call on the same BatchProcessor
    queue_item,      \* an in-memory QueueItem and the processing_queue row it mirrors
    warm             \* the warm_cache_for_batch call and where it stands

queueVars == <<queue, batch_metadata, tx, ret, calls, quarantined_ids>>
cacheVars == <<stage1_cache, stage2_cache, cache_metrics, call, cacheCalls,
               computedKeys, failedKeys>>
batchVars == <<max_concurrent, semaphore, item_status, progress, unit, channel, main>>
keyVars == <<key_items, key_results, key_calls>>
\* what the stores and the orchestrator never touch: the key deriver's calls,
\* the warm_cache_for_batch call, the clear_cache / get_cache_stats call and
\* the workers that take items off the queue
extraVars == <<keyVars, warm, cache_op, worker, processing_checkpoints, other, queue_item>>
vars == <<queueVars, cacheVars, batchVars, extraVars>>

(***************************************************************************)
(* Queue Store                                                             *)
(***************************************************************************)
\* status_to_string: the string written to the status column
status_to_string(status) ==
    CASE status = "Pending" -> "pending"
      [] status = "InProgress" -> "in_progress"
      [] status = "Completed" -> "completed"
      [] status = "Failed" -> "failed"
      [] status = "Quarantined" -> "quarantined"

NoTx == [active |-> FALSE, batch_id |-> None, n |-> 0, meta |-> FALSE, inserted |-> 0]

\* the row enqueue_batch inserts for one vocabulary id
NewQueueRow(vocab_id, batch_id) ==
    [vocabulary_id |-> vocab_id, batch_id |-> batch_id, status |-> "pending",
     stage |-> "stage1", retry_count |-> 0, max_retries |-> DefaultMaxRetries]

\* the row enqueue_batch inserts into batch_metadata
NewBatchMetadata(batch_id, total) ==
    [batch_id |-> batch_id, total_items |-> total, status |-> "pending",
     completed_items |-> 0, failed_items |-> 0, quarantined_items |-> 0]

RowsOfBatch(q, b) == {i \in 1..Len(q) : q[i].batch_id = b}
MetaOfBatch(m, b) == {k \in 1..Len(m) : m[k].batch_id = b}

Ok(v) == [ok |-> TRUE, value |-> v]
Err(e) == [ok |-> FALSE, value |-> e]
\* a call's return value, tagged with the operation that returned it
Ret(op, r) == [op |-> op, ok |-> r.ok, value |-> r.value]
NoRet == [op |-> None, ok |-> TRUE, value |-> None]

\* the ids of the rows whose status is quarantined
Quarantined(q) == {i \in 1..Len(q) : q[i].status = "quarantined"}

\* one more call is made
Called == calls < MaxCalls /\ calls' = calls + 1

\* ---- enqueue_batch: one transaction; its writes stay in tx until the commit ----

\* pool.begin(): open the transaction for vocabulary ids 1..n of batch b
enqueue_batch_begin(b, n) ==
    /\ ~tx.active
    /\ Len(queue) + n <= MaxRows
    /\ Called
    /\ tx' = [active |-> TRUE, batch_id |-> b, n |-> n, meta |-> FALSE, inserted |-> 0]
    /\ UNCHANGED <<queue, batch_metadata, ret>>
    /\ quarantined_ids' = quarantined_ids \cup Quarantined(queue')
    /\ UNCHANGED <<cacheVars, batchVars, extraVars>>

\* INSERT INTO batch_metadata, executed on the transaction
tx_insert_metadata(m, t) == <<m, [t EXCEPT !.meta = TRUE]>>

\* batch_metadata.batch_id is the table's key: a second row for a batch is refused
BatchIdIsFree(b) == MetaOfBatch(batch_metadata, b) = {}

enqueue_batch_insert_metadata ==
    /\ tx.active /\ ~tx.meta
    /\ BatchIdIsFree(tx.batch_id)
    /\ LET r == tx_insert_metadata(batch_metadata, tx) IN
         /\ batch_metadata' = r[1]
         /\ tx' = r[2]
    /\ UNCHANGED <<queue, ret, calls>>
    /\ quarantined_ids' = quarantined_ids \cup Quarantined(queue')
    /\ UNCHANGED <<cacheVars, batchVars, extraVars>>

\* variant: the INSERT runs on the pool (autocommit) instead of on the transaction
tx_insert_item_autocommit(q, t) ==
    <<Append(q, NewQueueRow(t.inserted + 1, t.batch_id)), [t EXCEPT !.inserted = @ + 1]>>

\* INSERT INTO processing_queue for the next vocabulary id, on the transaction
tx_insert_item(q, t) == <<q, [t EXCEPT !.inserted = @ + 1]>>

enqueue_batch_insert_item ==
    /\ tx.active /\ tx.meta /\ tx.inserted < tx.n
    /\ LET r == tx_insert_item(queue, tx) IN
         /\ queue' = r[1]
         /\ tx' = r[2]
    /\ UNCHANGED <<batch_metadata, ret, calls>>
    /\ quarantined_ids' = quarantined_ids \cup Quarantined(queue')
    /\ UNCHANGED <<cacheVars, batchVars, extraVars>>

\* the rows a committed transaction adds to processing_queue
tx_rows(t) == [k \in 1..t.inserted |-> NewQueueRow(k, t.batch_id)]

\* tx.commit() and Ok(count)
enqueue_batch_commit ==
    /\ tx.active /\ tx.meta /\ tx.inserted = tx.n
    /\ queue' = queue \o tx_rows(tx)
    /\ batch_metadata' = Append(batch_metadata, NewBatchMetadata(tx.batch_id, tx.n))
    /\ ret' = Ret("enqueue_batch", Ok(tx.inserted))
    /\ tx' = NoTx
    /\ UNCHANGED calls
    /\ quarantined_ids' = quarantined_ids \cup Quarantined(queue')
    /\ UNCHANGED <<cacheVars, batchVars, extraVars>>

\* any statement of the transaction fails: `?` returns, dropping tx rolls it back
enqueue_batch_fail ==
    /\ tx.active
    /\ ret' = Ret("enqueue_batch", Err("Database"))
    /\ tx' = NoTx
    /\ UNCHANGED <<queue, batch_metadata, calls>>
    /\ quarantined_ids' = quarantined_ids \cup Quarantined(queue')
    /\ UNCHANGED <<cacheVars, batchVars, extraVars>>

\* the transaction holds the store's write lock from its first INSERT on
WriteLocked == tx.active /\ tx.meta

\* ---- get_batch_progress ----

CountStatus(q, b, s) == Cardinality({i \in RowsOfBatch(q, b) : q[i].status = s})

\* BatchProgress::is_complete
is_complete(bp) == bp.pending_items = 0 /\ bp.in_progress_items = 0

\* variant: rows in progress are counted as pending as well
batch_progress_double(q, m, b) ==
    LET k == CHOOSE k \in MetaOfBatch(m, b) : \A j \in MetaOfBatch(m, b) : k <= j IN
    [batch_id |-> b,
     total_items |-> m[k].total_items,
     completed_items |-> CountStatus(q, b, "completed"),
     failed_items |-> CountStatus(q, b, "failed"),
     quarantined_items |-> CountStatus(q, b, "quarantined"),
     pending_items |-> CountStatus(q, b, "pending") + CountStatus(q, b, "in_progress"),
     in_progress_items |-> CountStatus(q, b, "in_progress")]

\* the BatchProgress built from the metadata row and the GROUP BY status counts
batch_progress(q, m, b) ==
    LET k == CHOOSE k \in MetaOfBatch(m, b) : \A j \in MetaOfBatch(m, b) : k <= j IN
    [batch_id |-> b,
     total_items |-> m[k].total_items,
     completed_items |-> CountStatus(q, b, "completed"),
     failed_items |-> CountStatus(q, b, "failed"),
     quarantined_items |-> CountStatus(q, b, "quarantined"),
     pending_items |-> CountStatus(q, b, "pending"),
     in_progress_items |-> CountStatus(q, b, "in_progress")]

get_batch_progress_result(q, m, b) ==
    IF MetaOfBatch(m, b) = {} THEN Err("Validation") ELSE Ok(batch_progress(q, m, b))

get_batch_progress(b) ==
    /\ Called
    /\ ret' = Ret("get_batch_progress", get_batch_progress_result(queue, batch_metadata, b))
    /\ UNCHANGED <<queue, batch_metadata, tx>>
    /\ quarantined_ids' = quarantined_ids \cup Quarantined(queue')
    /\ UNCHANGED <<cacheVars, batchVars, extraVars>>

\* ---- get_next_pending ----

\* variant: the SELECT has no status condition
PendingRows_any_status(q, batch_id) ==
    {i \in 1..Len(q) : batch_id # None => q[i].batch_id = batch_id}

\* the rows the SELECT matches: status 'pending', of the batch when one is given
PendingRows(q, batch_id) ==
    {i \in 1..Len(q) : /\ q[i].status = "pending"
                       /\ batch_id # None => q[i].batch_id = batch_id}

\* row_to_item: the QueueItem of a row, its status and stage parsed
row_to_item(q, i) ==
    IF q[i].status \in {status_to_string(s) : s \in ProcessingStatus}
       /\ q[i].stage \in {"stage1", "stage2", "complete"}
    THEN Ok([id |-> i, status |-> q[i].status, stage |-> q[i].stage])
    ELSE Err("Validation")

\* created_at of row i: rows are stamped in creation order
created_at(q, i) == i

\* variant: ORDER BY created_at DESC
first_by_created_at_desc(q, rows) ==
    CHOOSE i \in rows : \A j \in rows : created_at(q, i) >= created_at(q, j)

\* ORDER BY created_at ASC LIMIT 1 over the matching rows
first_by_created_at(q, rows) ==
    CHOOSE i \in rows : \A j \in rows : created_at(q, i) <= created_at(q, j)

\* what get_next_pending(batch_id) returns: the first matching row as an item,
\* Ok(None) (id 0) when no row matches
get_next_pending_result(q, batch_id) ==
    LET rows == PendingRows(q, batch_id) IN
    IF rows = {}
    THEN Ok([id |-> 0, status |-> None, stage |-> None])
    ELSE row_to_item(q, first_by_created_at(q, rows))

get_next_pending(batch_id) ==
    /\ Called
    /\ ret' = Ret("get_next_pending", get_next_pending_result(queue, batch_id))
    /\ UNCHANGED <<queue, batch_metadata, tx>>
    /\ quarantined_ids' = quarantined_ids \cup Quarantined(queue')
    /\ UNCHANGED <<cacheVars, batchVars, extraVars>>

\* ---- update_status ----

\* update_batch_progress: the batch_metadata table after the recomputation
update_batch_progress(q, m, item_id) ==
    LET b == q[item_id].batch_id
        bp == batch_progress(q, m, b)
        status == IF is_complete(bp)
                  THEN (IF bp.failed_items > 0 \/ bp.quarantined_items > 0
                        THEN "partial" ELSE "completed")
                  ELSE "in_progress"
    IN [k \in 1..Len(m) |->
          IF m[k].batch_id = b
          THEN [m[k] EXCEPT !.completed_items = bp.completed_items,
                            !.failed_items = bp.failed_items,
                            !.quarantined_items = bp.quarantined_items,
                            !.status = status]
          ELSE m[k]]

\* the UPDATE processing_queue SET status = ? WHERE id = ?
update_status_row(row, status) == [row EXCEPT !.status = status_to_string(status)]

TerminalStatus == {"Completed", "Failed", "Quarantined"}

update_status(item_id, status) ==
    /\ ~WriteLocked
    /\ Called
    /\ IF item_id \in 1..Len(queue)
       THEN LET q == [queue EXCEPT ![item_id] = update_status_row(queue[item_id], status)] IN
            /\ queue' = q
            /\ batch_metadata' = IF status \in TerminalStatus
                                 THEN update_batch_progress(q, batch_metadata, item_id)
                                 ELSE batch_metadata
            /\ ret' = Ret("update_status", Ok(None))
       ELSE \* the UPDATE matches no row; update_batch_progress's fetch_one then fails
            /\ UNCHANGED <<queue, batch_metadata>>
            /\ ret' = Ret("update_status", IF status \in TerminalStatus THEN Err("Database") ELSE Ok(None))
    /\ UNCHANGED tx
    /\ quarantined_ids' = quarantined_ids \cup Quarantined(queue')
    /\ UNCHANGED <<cacheVars, batchVars, extraVars>>

\* ---- complete_stage ----

\* variant: the stage1 arm forgets to reset the status, the last arm wraps around
complete_stage_row_lax(row) ==
    CASE row.stage = "stage1" -> [row EXCEPT !.stage = "stage2"]
      [] row.stage = "stage2" -> [row EXCEPT !.stage = "complete", !.status = "completed"]
      [] OTHER -> [row EXCEPT !.stage = "stage1"]

complete_stage_row(row) ==
    CASE row.stage = "stage1" -> [row EXCEPT !.stage = "stage2", !.status = "pending"]
      [] row.stage = "stage2" -> [row EXCEPT !.stage = "complete", !.status = "completed"]
      [] OTHER -> row

complete_stage_result(row) ==
    CASE row.stage = "stage1" -> Ok("Stage2")
      [] row.stage = "stage2" -> Ok("Complete")
      [] OTHER -> Err("Validation")

complete_stage(item_id) ==
    /\ ~WriteLocked
    /\ Called
    /\ IF item_id \in 1..Len(queue)
       THEN /\ queue' = [queue EXCEPT ![item_id] = complete_stage_row(queue[item_id])]
            /\ ret' = Ret("complete_stage", complete_stage_result(queue[item_id]))
       ELSE /\ UNCHANGED queue
            /\ ret' = Ret("complete_stage", Err("Database"))
    /\ UNCHANGED <<batch_metadata, tx>>
    /\ quarantined_ids' = quarantined_ids \cup Quarantined(queue')
    /\ UNCHANGED <<cacheVars, batchVars, extraVars>>

\* ---- increment_retry ----

\* variant: quarantine only once the count exceeds max_retries
increment_retry_row_late(row) ==
    LET new_retry_count == row.retry_count + 1 IN
    IF new_retry_count > row.max_retries
    THEN [row EXCEPT !.status = "quarantined", !.retry_count = new_retry_count]
    ELSE [row EXCEPT !.status = "pending", !.retry_count = new_retry_count]

increment_retry_row(row) ==
    LET new_retry_count == row.retry_count + 1 IN
    IF new_retry_count >= row.max_retries
    THEN [row EXCEPT !.status = "quarantined", !.retry_count = new_retry_count]
    ELSE [row EXCEPT !.status = "pending", !.retry_count = new_retry_count]

increment_retry_result(row) ==
    IF row.retry_count + 1 >= row.max_retries THEN Ok(FALSE) ELSE Ok(TRUE)

increment_retry(item_id) ==
    /\ ~WriteLocked
    /\ Called
    /\ IF item_id \in 1..Len(queue)
       THEN /\ queue' = [queue EXCEPT ![item_id] = increment_retry_row(queue[item_id])]
            /\ ret' = Ret("increment_retry", increment_retry_result(queue[item_id]))
       ELSE /\ UNCHANGED queue
            /\ ret' = Ret("increment_retry", Err("Database"))
    /\ UNCHANGED <<batch_metadata, tx>>
    /\ quarantined_ids' = quarantined_ids \cup Quarantined(queue')
    /\ UNCHANGED <<cacheVars, batchVars, extraVars>>

\* ---- the in-memory QueueItem (models/queue.rs) next to its row ----

\* QueueItem::complete_stage: the item afterwards; the method returns nothing
\* and refuses nothing
QueueItem_complete_stage(item) ==
    CASE item.stage = "Stage1" -> [item EXCEPT !.stage = "Stage2", !.status = "Pending"]
      [] item.stage = "Stage2" -> [item EXCEPT !.stage = "Complete", !.status = "Completed"]
      [] item.stage = "Complete" -> item

\* QueueItem::fail_with_retry: the item afterwards; the method returns whether
\* the item may be retried
QueueItem_fail_with_retry(item) ==
    LET retry_count == item.retry_count + 1 IN
    IF retry_count >= item.max_retries
    THEN [item EXCEPT !.retry_count = retry_count, !.status = "Quarantined"]
    ELSE [item EXCEPT !.retry_count = retry_count, !.status = "Pending"]

\* a QueueItem and its row before any transition
NoPair ==
    [item |-> [status |-> "Pending", stage |-> "Stage1", retry_count |-> 0,
               max_retries |-> DefaultMaxRetries],
     row |-> NewQueueRow(1, "b1"),
     op |-> None, item_ret |-> Ok(None), row_ret |-> Ok(None), transitions |-> 0]

\* one transition made on both sides: the QueueItem method on the item, the
\* Queue Store operation on the row
transition_both(op) ==
    /\ queue_item.transitions < MaxTransitions
    /\ queue_item' =
          IF op = "complete_stage"
          THEN [queue_item EXCEPT
                  !.op = op, !.transitions = @ + 1,
                  !.item = QueueItem_complete_stage(@),
                  !.item_ret = Ok(None),
                  !.row = complete_stage_row(@),
                  !.row_ret = IF complete_stage_result(queue_item.row).ok
                              THEN Ok(None) ELSE complete_stage_result(queue_item.row)]
          ELSE [queue_item EXCEPT
                  !.op = op, !.transitions = @ + 1,
                  !.item = QueueItem_fail_with_retry(@),
                  !.item_ret = Ok(QueueItem_fail_with_retry(queue_item.item).status = "Pending"),
                  !.row = increment_retry_row(@),
                  !.row_ret = increment_retry_result(queue_item.row)]
    /\ UNCHANGED <<queueVars, cacheVars, batchVars, keyVars, warm, cache_op, worker,
                   processing_checkpoints, other>>

\* ---- workers: get_next_pending, then update_status(item, InProgress) ----

Workers == {1, 2}

NoWork == [pc |-> "idle", batch_id |-> None, item |-> 0, claimed |-> {}]

\* a worker calls get_next_pending(batch_id)
worker_get_next_pending(w, batch_id) ==
    /\ worker[w].pc = "idle"
    /\ LET r == get_next_pending_result(queue, batch_id) IN
         /\ r.ok
         /\ worker' = [worker EXCEPT ![w].pc = IF r.value.id = 0 THEN "none" ELSE "got",
                                     ![w].batch_id = batch_id,
                                     ![w].item = r.value.id]
    /\ UNCHANGED queueVars
    /\ UNCHANGED <<cacheVars, batchVars, keyVars, warm, cache_op, processing_checkpoints, other, queue_item>>

\* the worker calls update_status(item, InProgress, None) on what it got
worker_update_status(w) ==
    /\ worker[w].pc = "got"
    /\ queue' = [queue EXCEPT ![worker[w].item] = update_status_row(@, "InProgress")]
    /\ worker' = [worker EXCEPT ![w].pc = "idle", ![w].claimed = @ \cup {worker[w].item}]
    /\ UNCHANGED <<batch_metadata, tx, ret, calls, quarantined_ids>>
    /\ UNCHANGED <<cacheVars, batchVars, keyVars, warm, cache_op, processing_checkpoints, other, queue_item>>

\* ---- save_checkpoint / get_latest_checkpoint ----

\* what callers save: a last-processed id, a stage and a payload
CheckpointInputs ==
    {[last_processed_id |-> 1, stage |-> "Stage1", checkpoint_data |-> "d1"],
     [last_processed_id |-> 2, stage |-> "Stage2", checkpoint_data |-> "d2"],
     [last_processed_id |-> 2, stage |-> "Complete", checkpoint_data |-> "d1"]}

\* stage_str: the string written to the stage column
stage_str(stage) ==
    CASE stage = "Stage1" -> "stage1"
      [] stage = "Stage2" -> "stage2"
      [] stage = "Complete" -> "complete"

\* save_checkpoint: one INSERT; checkpoint_data.to_string() is the stored text
save_checkpoint(batch_id, c) ==
    /\ Called
    /\ processing_checkpoints' =
          Append(processing_checkpoints,
                 [batch_id |-> batch_id, last_processed_id |-> c.last_processed_id,
                  stage |-> stage_str(c.stage),
                  checkpoint_data |-> <<"json", c.checkpoint_data>>])
    /\ ret' = Ret("save_checkpoint", Ok(None))
    /\ UNCHANGED <<queue, batch_metadata, tx>>
    /\ quarantined_ids' = quarantined_ids \cup Quarantined(queue')
    /\ UNCHANGED <<cacheVars, batchVars, keyVars, warm, cache_op, worker, other, queue_item>>

\* variant: ORDER BY created_at ASC
latest_checkpoint_oldest(tbl, batch_id) ==
    LET rows == {i \in 1..Len(tbl) : tbl[i].batch_id = batch_id} IN
    IF rows = {} THEN 0
    ELSE CHOOSE i \in rows : \A j \in rows : created_at(tbl, i) <= created_at(tbl, j)

\* WHERE batch_id = ? ORDER BY created_at DESC LIMIT 1: the row id, 0 for no row
latest_checkpoint(tbl, batch_id) ==
    LET rows == {i \in 1..Len(tbl) : tbl[i].batch_id = batch_id} IN
    IF rows = {} THEN 0
    ELSE CHOOSE i \in rows : \A j \in rows : created_at(tbl, i) >= created_at(tbl, j)

\* get_latest_checkpoint: the row is read, its stage string matched and its
\* payload parsed; Ok(None) is the checkpoint of id 0
get_latest_checkpoint(batch_id) ==
    /\ Called
    /\ LET id == latest_checkpoint(processing_checkpoints, batch_id)
           row == processing_checkpoints[id]
       IN ret' = Ret("get_latest_checkpoint",
             IF id = 0
             THEN Ok([id |-> 0, batch_id |-> batch_id, last_processed_id |-> 0,
                      stage |-> None, checkpoint_data |-> None])
             ELSE IF row.stage \notin {"stage1", "stage2", "complete"}
             THEN Err("Validation")
             ELSE IF row.checkpoint_data[1] # "json"
             THEN Err("Serialization")
             ELSE Ok([id |-> id, batch_id |-> row.batch_id,
                      last_processed_id |-> row.last_processed_id,
                      stage |-> CASE row.stage = "stage1" -> "Stage1"
                                  [] row.stage = "stage2" -> "Stage2"
                                  [] row.stage = "complete" -> "Complete",
                      checkpoint_data |-> row.checkpoint_data[2]]))
    /\ UNCHANGED <<queue, batch_metadata, tx, processing_checkpoints>>
    /\ quarantined_ids' = quarantined_ids \cup Quarantined(queue')
    /\ UNCHANGED <<cacheVars, batchVars, keyVars, warm, cache_op, worker, other, queue_item>>

QueueNext ==
    \/ \E b \in BatchIds, n \in 0..MaxRows : enqueue_batch_begin(b, n)
    \/ enqueue_batch_insert_metadata
    \/ enqueue_batch_insert_item
    \/ enqueue_batch_commit
    \/ enqueue_batch_fail
    \/ \E b \in BatchIds : get_batch_progress(b)
    \/ \E b \in BatchIds \cup {None} : get_next_pending(b)
    \/ \E i \in 1..MaxRows, s \in ProcessingStatus : update_status(i, s)
    \/ \E i \in 1..MaxRows : complete_stage(i)
    \/ \E i \in 1..MaxRows : increment_retry(i)


(***************************************************************************)
(* Content Key Deriver (models/vocabulary.rs)                              *)
(***************************************************************************)
\* the semantic fields of the vocabulary items the model works on; a string
\* is a sequence of characters, an Option a sequence of at most one string
Items ==
    { [korean |-> <<"a">>, english |-> <<"x">>, category |-> <<"c">>,
       hanja |-> <<>>, example_sentence |-> <<>>],
      [korean |-> <<"a">>, english |-> <<"y">>, category |-> <<"c">>,
       hanja |-> <<>>, example_sentence |-> <<>>] }

\* the bytes of an optional field the hasher is updated with
OptBytes(opt) == IF opt = <<>> THEN <<>> ELSE opt[1]

\* variant: the id is hashed along with the semantic fields
generate_cache_key_with_id(item) ==
    (IF "id" \in DOMAIN item THEN <<item.id>> ELSE <<>>)
        \o item.korean \o item.english \o item.category
        \o OptBytes(item.hanja) \o OptBytes(item.example_sentence)

\* VocabularyItem::generate_cache_key: the digest of the bytes fed to the
\* hasher; the digest is taken to be collision-free, so it is these bytes
generate_cache_key(item) ==
    item.korean \o item.english \o item.category
        \o OptBytes(item.hanja) \o OptBytes(item.example_sentence)

\* Stage1Result::generate_cache_key
Stage1Result_generate_cache_key(item) ==
    [prefix |-> "stage1_", digest |-> <<generate_cache_key(item)>>]

\* Stage2Result::generate_cache_key: digest of stage1_key followed by the item key
Stage2Result_generate_cache_key(item, stage1_key) ==
    [prefix |-> "stage2_", digest |-> <<stage1_key, generate_cache_key(item)>>]

Stage1Keys == {Stage1Result_generate_cache_key(it) : it \in Items}
Stage2Keys == {Stage2Result_generate_cache_key(it, k) : it \in Items, k \in Stage1Keys}

\* ---- key derivation on its own, over two items ----

Chars == {"a"}

\* the strings of at most n characters
Strings(n) == UNION {[1..k -> Chars] : k \in 0..n}

\* an Option<String>: None or Some("a")
OptStrings == {<<>>, <<<<"a">>>>}

\* VocabularyItem: id (0 for None, as a non-semantic field) and the semantic fields
KeyItems ==
    [id : {0, 1}, korean : Strings(MaxFieldLen), english : Strings(MaxFieldLen),
     category : {<<"c">>}, hanja : OptStrings, example_sentence : OptStrings]

NoKeyItems == <<CHOOSE it \in KeyItems : TRUE, CHOOSE it \in KeyItems : TRUE>>

NoKeys == [item_key |-> <<>>, stage1_key |-> [prefix |-> "", digest |-> <<>>],
           stage2_key |-> [prefix |-> "", digest |-> <<>>]]

\* the three keys derived for an item
derive_keys(item) ==
    [item_key |-> generate_cache_key(item),
     stage1_key |-> Stage1Result_generate_cache_key(item),
     stage2_key |-> Stage2Result_generate_cache_key(item,
                        Stage1Result_generate_cache_key(item))]

\* one derivation of the keys of item i
derive_item_key(i) ==
    /\ key_calls[i] < MaxKeyCalls
    /\ key_calls' = [key_calls EXCEPT ![i] = @ + 1]
    /\ key_results' = [key_results EXCEPT ![i] = derive_keys(key_items[i])]
    /\ UNCHANGED key_items
    /\ UNCHANGED <<queueVars, cacheVars, batchVars, warm, cache_op, worker, processing_checkpoints, other, queue_item>>

KeyNext == \E i \in 1..2 : derive_item_key(i)

InitKeys(pair) ==
    /\ key_items = pair
    /\ key_results = <<NoKeys, NoKeys>>
    /\ key_calls = <<0, 0>>

(***************************************************************************)
(* Cache Store (repositories/cache.rs, cache_manager.rs)                   *)
(***************************************************************************)
CacheType == {"stage1", "stage2"}
Callers == {1, 2}
\* what the Compute Provider can put into a result
Contents == {"p1", "p2"}

KeysOf(cache_type) == IF cache_type = "stage1" THEN Stage1Keys ELSE Stage2Keys

\* the results a producer can return: the cache_key field is the provider's
ProducerResults(cache_type) ==
    [vocabulary_id : {1}, request_id : {"req"}, cache_key : KeysOf(cache_type),
     content : Contents]

\* save_stage1_cache / save_stage2_cache: the row the INSERT writes
cache_row(result) ==
    [vocabulary_id |-> result.vocabulary_id,
     cache_key |-> result.cache_key,
     response_json |-> [request_id |-> result.request_id, content |-> result.content],
     access_count |-> 0]

\* get_stage1_cache / get_stage2_cache: the result rebuilt from a row
cached_result(row) ==
    [vocabulary_id |-> row.vocabulary_id,
     request_id |-> row.response_json.request_id,
     cache_key |-> row.cache_key,
     content |-> row.response_json.content]

\* payloads that do not decode: text that is no JSON value of the expected
\* shape, and a JSON object without semantic_analysis / flashcard_content
Undecodable == {"Invalid", "Missing"}

\* serde_json::from_str(&row.response_json)?, response_data.get(..).ok_or_else(..)?
\* and serde_json::from_value(..)?: the result rebuilt from the row, or the error
decode_response(row) ==
    CASE row.response_json.content = "Invalid" -> Err("Serialization")
      [] row.response_json.content = "Missing" -> Err("Cache")
      [] OTHER -> Ok(cached_result(row))

\* SELECT ... WHERE cache_key = ?, fetch_optional: the first matching row, or 0
get_cache_row(tbl, cache_key) ==
    IF \E i \in 1..Len(tbl) : tbl[i].cache_key = cache_key
    THEN CHOOSE i \in 1..Len(tbl) :
            /\ tbl[i].cache_key = cache_key
            /\ \A j \in 1..Len(tbl) : tbl[j].cache_key = cache_key => i <= j
    ELSE 0

\* update_cache_access
update_cache_access(tbl, id) == [tbl EXCEPT ![id].access_count = @ + 1]

\* increment_cache_metrics
increment_cache_metrics(metrics, cache_type, is_hit) ==
    IF is_hit
    THEN [metrics EXCEPT ![cache_type].hit_count = @ + 1]
    ELSE [metrics EXCEPT ![cache_type].miss_count = @ + 1]

\* cache_key is the key of a cache table: a second row under a key is refused
CacheKeyIsFree(tbl, cache_key) == get_cache_row(tbl, cache_key) = 0

\* the cache table after save_stage1_cache / save_stage2_cache succeeded
save_cache(tbl, result) == Append(tbl, cache_row(result))

Table(cache_type) == IF cache_type = "stage1" THEN stage1_cache ELSE stage2_cache

SetTable(cache_type, tbl) ==
    IF cache_type = "stage1"
    THEN stage1_cache' = tbl /\ UNCHANGED stage2_cache
    ELSE stage2_cache' = tbl /\ UNCHANGED stage1_cache

Idle == [pc |-> "idle", cache_type |-> None, cache_key |-> None, hit |-> FALSE,
         invoked |-> 0, result |-> None, ok |-> TRUE, error |-> None,
         after_computed |-> FALSE, after_failed |-> FALSE]

\* ---- get_or_compute_stage1 / get_or_compute_stage2, one step per await ----

\* generate the cache key and look it up (get_stage1_cache / get_stage2_cache)
get_or_compute_lookup(c, cache_type, cache_key) ==
    /\ call[c].pc \in {"idle", "done"}
    /\ cacheCalls < MaxCacheCalls
    /\ cacheCalls' = cacheCalls + 1
    /\ LET tbl == Table(cache_type)
           id == get_cache_row(tbl, cache_key)
           started == [Idle EXCEPT !.cache_type = cache_type, !.cache_key = cache_key,
                                   !.after_computed = cache_key \in computedKeys,
                                   !.after_failed = cache_key \in failedKeys]
       IN IF id # 0
          THEN /\ SetTable(cache_type, update_cache_access(tbl, id))
               /\ IF decode_response(tbl[id]).ok
                  THEN \* hit: Ok(cached_result), the producer is not called
                       /\ cache_metrics' = increment_cache_metrics(cache_metrics,
                                                                   cache_type, TRUE)
                       /\ call' = [call EXCEPT ![c] =
                                      [started EXCEPT !.pc = "done", !.hit = TRUE,
                                          !.result = decode_response(tbl[id]).value]]
                  ELSE \* `?` on the decoding error: get_or_compute returns it
                       /\ UNCHANGED cache_metrics
                       /\ call' = [call EXCEPT ![c] =
                                      [started EXCEPT !.pc = "done", !.ok = FALSE,
                                          !.error = decode_response(tbl[id]).value]]
          ELSE /\ cache_metrics' = increment_cache_metrics(cache_metrics, cache_type, FALSE)
               /\ call' = [call EXCEPT ![c] = [started EXCEPT !.pc = "compute"]]
               /\ UNCHANGED <<stage1_cache, stage2_cache>>
    /\ UNCHANGED <<computedKeys, failedKeys>>
    /\ UNCHANGED <<queueVars, batchVars, extraVars>>

\* variant: the failure is remembered under the key that was looked up
producer_failed_cache_negative(tbl, cache_key) ==
    Append(tbl, [vocabulary_id |-> 1, cache_key |-> cache_key,
                 response_json |-> [request_id |-> "req", content |-> "error"],
                 access_count |-> 0])

\* compute_fn().await? when the producer fails: what the cache table becomes
producer_failed_cache(tbl, cache_key) == tbl

\* variant: a call whose key another call has already computed takes that
\* call's result instead of invoking its own producer
compute_fn_shared(c, r) ==
    IF \E v \in Callers \ {c} : /\ call[v].pc \in {"save", "done"} /\ call[v].invoked = 1
                                /\ call[v].error = None
                                /\ call[v].cache_type = call[c].cache_type
                                /\ call[v].cache_key = call[c].cache_key
    THEN [call[c] EXCEPT !.pc = "save", !.result = r]
    ELSE [call[c] EXCEPT !.pc = "save", !.invoked = @ + 1, !.result = r]

\* compute_fn().await returned Ok: the call's own producer has been invoked
compute_fn(c, r) == [call[c] EXCEPT !.pc = "save", !.invoked = @ + 1, !.result = r]

\* compute_fn().await
get_or_compute_compute(c) ==
    /\ call[c].pc = "compute"
    /\ \/ \E r \in ProducerResults(call[c].cache_type) :
             /\ call' = [call EXCEPT ![c] = compute_fn(c, r)]
             /\ UNCHANGED <<stage1_cache, stage2_cache, failedKeys>>
       \/ /\ call' = [call EXCEPT ![c].pc = "done", ![c].invoked = @ + 1,
                                  ![c].ok = FALSE, ![c].error = "Api"]
          /\ SetTable(call[c].cache_type,
                      producer_failed_cache(Table(call[c].cache_type), call[c].cache_key))
          /\ failedKeys' = failedKeys \cup {call[c].cache_key}
    /\ UNCHANGED <<cache_metrics, cacheCalls, computedKeys>>
    /\ UNCHANGED <<queueVars, batchVars, extraVars>>

\* save_stage1_cache(&result, ...).await? and Ok(result)
get_or_compute_save(c) ==
    /\ call[c].pc = "save"
    /\ LET tbl == Table(call[c].cache_type) IN
       IF CacheKeyIsFree(tbl, call[c].result.cache_key)
       THEN /\ SetTable(call[c].cache_type, save_cache(tbl, call[c].result))
            /\ call' = [call EXCEPT ![c].pc = "done"]
            /\ computedKeys' = computedKeys \cup {call[c].cache_key}
       ELSE /\ call' = [call EXCEPT ![c].pc = "done", ![c].ok = FALSE,
                                    ![c].error = "Database"]
            /\ UNCHANGED <<stage1_cache, stage2_cache, computedKeys>>
    /\ UNCHANGED <<cache_metrics, cacheCalls, failedKeys>>
    /\ UNCHANGED <<queueVars, batchVars, extraVars>>

CacheNext ==
    \/ \E c \in Callers, t \in CacheType : \E k \in KeysOf(t) : get_or_compute_lookup(c, t, k)
    \/ \E c \in Callers : get_or_compute_compute(c)
    \/ \E c \in Callers : get_or_compute_save(c)

\* ---- clear_cache ----

\* no clear_cache / get_cache_stats call yet; stats is a CacheStats not yet
\* filled in, its hit_rate kept as the fraction num/den
NoOp == [op |-> None, pc |-> "idle", scope |-> None, count |-> 0,
         stats |-> [total_entries |-> 0, stage1_entries |-> 0, stage2_entries |-> 0,
                    total_hits |-> 0, total_misses |-> 0,
                    hit_rate |-> [num |-> 0, den |-> 1]]]

\* variant: only the entries never read again are deleted
delete_all_unread(tbl) == SelectSeq(tbl, LAMBDA row : row.access_count > 0)

\* DELETE FROM stage1_cache / stage2_cache: the table afterwards
delete_all(tbl) == <<>>

\* result.rows_affected() of the DELETE
rows_affected(tbl) == Len(tbl) - Len(delete_all(tbl))

\* clear_cache(cache_type): with Some(stage) one DELETE and Ok(count); with None
\* the DELETE on stage1_cache, the one on stage2_cache follows
clear_cache(scope) ==
    /\ cache_op.pc # "second"
    /\ IF scope = None
       THEN /\ stage1_cache' = delete_all(stage1_cache)
            /\ UNCHANGED stage2_cache
            /\ cache_op' = [NoOp EXCEPT !.op = "clear_cache", !.pc = "second",
                                        !.scope = scope,
                                        !.count = rows_affected(stage1_cache)]
       ELSE /\ SetTable(scope, delete_all(Table(scope)))
            /\ cache_op' = [NoOp EXCEPT !.op = "clear_cache", !.pc = "done",
                                        !.scope = scope,
                                        !.count = rows_affected(Table(scope))]
    /\ UNCHANGED <<cache_metrics, call, cacheCalls, computedKeys, failedKeys>>
    /\ UNCHANGED <<queueVars, batchVars, keyVars, warm, worker, processing_checkpoints, other, queue_item>>

\* clear_cache(None): the DELETE on stage2_cache and Ok(count)
clear_cache_second ==
    /\ cache_op.pc = "second"
    /\ stage2_cache' = delete_all(stage2_cache)
    /\ UNCHANGED stage1_cache
    /\ cache_op' = [cache_op EXCEPT !.pc = "done",
                                    !.count = @ + rows_affected(stage2_cache)]
    /\ UNCHANGED <<cache_metrics, call, cacheCalls, computedKeys, failedKeys>>
    /\ UNCHANGED <<queueVars, batchVars, keyVars, warm, worker, processing_checkpoints, other, queue_item>>

\* ---- get_cache_stats ----

\* SUM(hit_count), SUM(miss_count) over cache_metrics
total_hits(metrics) == metrics["stage1"].hit_count + metrics["stage2"].hit_count
total_misses(metrics) == metrics["stage1"].miss_count + metrics["stage2"].miss_count

\* CacheStats::calculate_hit_rate: hits / (hits + misses), 0.0 without lookups
calculate_hit_rate(hits, misses) ==
    IF hits + misses > 0 THEN [num |-> hits, den |-> hits + misses]
    ELSE [num |-> 0, den |-> 1]

\* get_cache_stats: the two COUNT(*), the sums over cache_metrics, the hit rate
get_cache_stats ==
    /\ cache_op.pc # "second"
    /\ cache_op' = [NoOp EXCEPT
          !.op = "get_cache_stats", !.pc = "done",
          !.stats = [total_entries |-> Len(stage1_cache) + Len(stage2_cache),
                     stage1_entries |-> Len(stage1_cache),
                     stage2_entries |-> Len(stage2_cache),
                     total_hits |-> total_hits(cache_metrics),
                     total_misses |-> total_misses(cache_metrics),
                     hit_rate |-> calculate_hit_rate(total_hits(cache_metrics),
                                                     total_misses(cache_metrics))]]
    /\ UNCHANGED cacheVars
    /\ UNCHANGED <<queueVars, batchVars, keyVars, warm, worker, processing_checkpoints, other, queue_item>>

\* ---- warm_cache_for_batch ----

WarmIdle == [pc |-> "idle", vocabulary_items |-> <<>>, idx |-> 0,
             stage1_hits |-> 0, stage2_hits |-> 0,
             stage1_key |-> [prefix |-> "", digest |-> <<>>],
             stats |-> [total_items |-> 0, stage1_cached |-> 0, stage2_cached |-> 0,
                        stage1_missing |-> 0, stage2_missing |-> 0]]

\* the item lists warm_cache_for_batch is called with
WarmLists == UNION {[1..n -> Items] : n \in 0..MaxWarmItems}

\* variant: the missing counts are taken relative to the stage-1 hits
CacheWarmupStats_relative(total, stage1_hits, stage2_hits) ==
    [total_items |-> total, stage1_cached |-> stage1_hits, stage2_cached |-> stage2_hits,
     stage1_missing |-> total - stage1_hits, stage2_missing |-> stage1_hits - stage2_hits]

\* let stats = CacheWarmupStats { .. }
CacheWarmupStats(total, stage1_hits, stage2_hits) ==
    [total_items |-> total, stage1_cached |-> stage1_hits, stage2_cached |-> stage2_hits,
     stage1_missing |-> total - stage1_hits, stage2_missing |-> total - stage2_hits]

\* the end of one turn of the for loop: the next item, or the stats and Ok(stats)
warm_next(w) ==
    IF w.idx < Len(w.vocabulary_items)
    THEN [w EXCEPT !.pc = "stage1", !.idx = @ + 1]
    ELSE [w EXCEPT !.pc = "done",
                   !.stats = CacheWarmupStats(Len(w.vocabulary_items),
                                              w.stage1_hits, w.stage2_hits)]

\* the call, up to the first lookup
warm_cache_for_batch(list) ==
    /\ warm.pc = "idle"
    /\ warm' = warm_next([WarmIdle EXCEPT !.vocabulary_items = list])
    /\ UNCHANGED <<queueVars, cacheVars, batchVars, keyVars, cache_op, worker, processing_checkpoints, other, queue_item>>

\* variant: a missing entry is reserved under its key while warming
warm_miss_reserve(tbl, cache_key) ==
    Append(tbl, [vocabulary_id |-> 1, cache_key |-> cache_key,
                 response_json |-> [request_id |-> "req", content |-> "pending"],
                 access_count |-> 0])

\* the cache table after a lookup of warm_cache_for_batch missed
warm_miss(tbl, cache_key) == tbl

\* get_stage1_cache(&stage1_key).await? for the current item
warm_cache_stage1 ==
    /\ warm.pc = "stage1"
    /\ LET cache_key == Stage1Result_generate_cache_key(warm.vocabulary_items[warm.idx])
           id == get_cache_row(stage1_cache, cache_key)
       IN IF id # 0
          THEN /\ stage1_cache' = update_cache_access(stage1_cache, id)
               /\ cache_metrics' = increment_cache_metrics(cache_metrics, "stage1", TRUE)
               /\ warm' = [warm EXCEPT !.pc = "stage2", !.stage1_hits = @ + 1,
                              !.stage1_key = cached_result(stage1_cache[id]).cache_key]
          ELSE /\ stage1_cache' = warm_miss(stage1_cache, cache_key)
               /\ cache_metrics' = increment_cache_metrics(cache_metrics, "stage1", FALSE)
               /\ warm' = warm_next(warm)
    /\ UNCHANGED <<stage2_cache, call, cacheCalls, computedKeys, failedKeys>>
    /\ UNCHANGED <<queueVars, batchVars, keyVars, cache_op, worker, processing_checkpoints, other, queue_item>>

\* get_stage2_cache(&stage2_key).await?.is_some() for the current item
warm_cache_stage2 ==
    /\ warm.pc = "stage2"
    /\ LET cache_key == Stage2Result_generate_cache_key(
                            warm.vocabulary_items[warm.idx], warm.stage1_key)
           id == get_cache_row(stage2_cache, cache_key)
       IN IF id # 0
          THEN /\ stage2_cache' = update_cache_access(stage2_cache, id)
               /\ cache_metrics' = increment_cache_metrics(cache_metrics, "stage2", TRUE)
               /\ warm' = warm_next([warm EXCEPT !.stage2_hits = @ + 1])
          ELSE /\ stage2_cache' = warm_miss(stage2_cache, cache_key)
               /\ cache_metrics' = increment_cache_metrics(cache_metrics, "stage2", FALSE)
               /\ warm' = warm_next(warm)
    /\ UNCHANGED <<stage1_cache, call, cacheCalls, computedKeys, failedKeys>>
    /\ UNCHANGED <<queueVars, batchVars, keyVars, cache_op, worker, processing_checkpoints, other, queue_item>>

WarmNext ==
    \/ \E list \in WarmLists : warm_cache_for_batch(list)
    \/ warm_cache_stage1
    \/ warm_cache_stage2

\* a cache table holding one saved result under each key of a set
RECURSIVE TableOfKeys(_)
TableOfKeys(keys) ==
    IF keys = {} THEN <<>>
    ELSE LET k == CHOOSE k \in keys : TRUE
         IN <<cache_row([vocabulary_id |-> 1, request_id |-> "req",
                         cache_key |-> k, content |-> "p1"])>> \o TableOfKeys(keys \ {k})

(***************************************************************************)
(* Batch Orchestrator (pipeline/src/batch_processor.rs)                    *)
(***************************************************************************)
\* positions of the items handed to process_batch
Positions == 1..NumItems

\* items: the first two positions carry the same content, so two items of a
\* batch share their cache keys; later positions carry the other content
items ==
    [p \in Positions |-> IF p <= 2 THEN CHOOSE it \in Items : it.english = <<"x">>
                                    ELSE CHOOSE it \in Items : it.english = <<"y">>]

\* what the Compute Provider answers in a batch run: a result that carries the
\* key of the request it answers (other keys are explored with the Cache Store)
ApiResults(cache_type, cache_key) ==
    {r \in ProducerResults(cache_type) : r.content = "p1" /\ r.cache_key = cache_key}

NoResult == [vocabulary_id |-> 0, request_id |-> "", content |-> "",
             cache_key |-> [prefix |-> "", digest |-> <<>>]]

\* a task that tokio::spawn has not created yet
Unspawned == [pc |-> "unspawned", stage |-> 1, computed |-> NoResult,
              stage1_result |-> NoResult, stage1_cached |-> FALSE,
              stage2_result |-> NoResult, stage2_cached |-> FALSE,
              api_failed |-> 0, ok |-> FALSE, was_cached |-> FALSE, error |-> None]

\* ProcessingProgress::new
ProcessingProgress_new(total) ==
    [total |-> total, completed |-> 0, cached |-> 0, failed |-> 0]

NotStarted == [pc |-> "idle", reporter |-> "none", checkpoint |-> FALSE,
               items |-> {}, resumed |-> FALSE,
               successful |-> <<>>, failed |-> <<>>, cache_hits |-> 0,
               total_processed |-> 0, ret |-> None]

\* process_batch up to the reporter: progress reset, progress updater spawned
process_batch_start ==
    /\ main.pc = "idle"
    /\ progress' = ProcessingProgress_new(NumItems)
    /\ main' = [main EXCEPT !.pc = "checkpoint", !.reporter = "running",
                            !.items = Positions]
    /\ UNCHANGED <<max_concurrent, semaphore, item_status, unit, channel>>
    /\ UNCHANGED <<queueVars, cacheVars, extraVars>>

\* variant: the error of create_checkpoint is set aside until the tasks are spawned
spawn_tasks_regardless(un, its, checkpoint_ok) ==
    [p \in Positions |-> IF p \in its THEN [Unspawned EXCEPT !.pc = "acquire"] ELSE un[p]]

\* for item in items { tokio::spawn(..) }, reached only past the '?' of
\* create_checkpoint
spawn_tasks(un, its, checkpoint_ok) ==
    IF checkpoint_ok
    THEN [p \in Positions |-> IF p \in its THEN [Unspawned EXCEPT !.pc = "acquire"] ELSE un[p]]
    ELSE un

\* create_checkpoint(batch_id).await? and, when it succeeded, the spawn loop
\* and drop(tx); on Err the call returns with the updater still running
process_batch_checkpoint ==
    /\ main.pc = "checkpoint"
    /\ \/ /\ main' = [main EXCEPT !.pc = "collect", !.checkpoint = TRUE]
          /\ unit' = spawn_tasks(unit, main.items, TRUE)
       \/ /\ main' = [main EXCEPT !.pc = "returned", !.ret = "Err"]
          /\ unit' = spawn_tasks(unit, main.items, FALSE)
    /\ UNCHANGED <<max_concurrent, semaphore, item_status, progress, channel>>
    /\ UNCHANGED <<queueVars, cacheVars, extraVars>>

\* the progress updater's loop body: it reads the progress and ends once
\* completed >= total
reporter_tick ==
    /\ main.reporter = "running"
    /\ progress.completed >= progress.total
    /\ main' = [main EXCEPT !.reporter = "finished"]
    /\ UNCHANGED <<max_concurrent, semaphore, item_status, progress, unit, channel>>
    /\ UNCHANGED <<queueVars, cacheVars, extraVars>>

\* variant: the semaphore admits a task whatever its count
permit_available_unbounded(sem) == TRUE

\* Semaphore::acquire completes only while a permit is available
permit_available(sem) == sem > 0

\* let _permit = permit.acquire().await.unwrap()
unit_acquire(p) ==
    /\ unit[p].pc = "acquire"
    /\ permit_available(semaphore)
    /\ semaphore' = semaphore - 1
    /\ unit' = [unit EXCEPT ![p].pc = "processing_write"]
    /\ UNCHANGED <<max_concurrent, item_status, progress, channel, main>>
    /\ UNCHANGED <<queueVars, cacheVars, extraVars>>

\* queue_repo.update_item_status(batch_id, position, status) when it succeeds
update_item_status(st, p, status) == [st EXCEPT ![p] = status]

\* update_item_status(.., Processing { stage }).await?
unit_processing_write(p) ==
    /\ unit[p].pc = "processing_write"
    /\ \/ /\ item_status' = update_item_status(item_status, p,
                               IF unit[p].stage = 1 THEN "Processing1" ELSE "Processing2")
          /\ unit' = [unit EXCEPT ![p].pc = "lookup"]
       \/ /\ unit' = [unit EXCEPT ![p].pc = "progress", ![p].error = "Database"]
          /\ UNCHANGED item_status
    /\ UNCHANGED <<max_concurrent, semaphore, progress, channel, main>>
    /\ UNCHANGED <<queueVars, cacheVars, extraVars>>

unit_cache_type(p) == IF unit[p].stage = 1 THEN "stage1" ELSE "stage2"

\* the key get_or_compute_stage1 / get_or_compute_stage2 derives for the item
unit_cache_key(p) ==
    IF unit[p].stage = 1
    THEN Stage1Result_generate_cache_key(items[p])
    ELSE Stage2Result_generate_cache_key(items[p], unit[p].stage1_result.cache_key)

\* the unit once Ok((result, was_cached)) came back from get_or_compute
unit_got_result(u, result, cached) ==
    IF u.stage = 1
    THEN [u EXCEPT !.pc = "processing_write", !.stage = 2,
                   !.stage1_result = result, !.stage1_cached = cached]
    ELSE [u EXCEPT !.pc = "completed_write",
                   !.stage2_result = result, !.stage2_cached = cached]

\* variant: a stage-1 error is logged and the item goes on to stage 2
unit_got_error_continue(u, e) ==
    IF u.stage = 1
    THEN [u EXCEPT !.pc = "processing_write", !.stage = 2, !.error = e]
    ELSE [u EXCEPT !.pc = "failed_write", !.error = e]

\* the unit once Err(e) came back from get_or_compute: the Err arm is taken
unit_got_error(u, e) == [u EXCEPT !.pc = "failed_write", !.error = e]

\* get_or_compute: the cache lookup
unit_lookup(p) ==
    /\ unit[p].pc = "lookup"
    /\ LET tbl == Table(unit_cache_type(p))
           id == get_cache_row(tbl, unit_cache_key(p))
       IN IF id # 0
          THEN /\ SetTable(unit_cache_type(p), update_cache_access(tbl, id))
               /\ cache_metrics' =
                     increment_cache_metrics(cache_metrics, unit_cache_type(p), TRUE)
               /\ unit' = [unit EXCEPT ![p] = unit_got_result(@, cached_result(tbl[id]), TRUE)]
          ELSE /\ cache_metrics' =
                     increment_cache_metrics(cache_metrics, unit_cache_type(p), FALSE)
               /\ unit' = [unit EXCEPT ![p].pc = "compute"]
               /\ UNCHANGED <<stage1_cache, stage2_cache>>
    /\ UNCHANGED <<call, cacheCalls, computedKeys, failedKeys>>
    /\ UNCHANGED <<max_concurrent, semaphore, item_status, progress, channel, main>>
    /\ UNCHANGED <<queueVars, extraVars>>

\* get_or_compute: api_client.process_stage1 / process_stage2
unit_compute(p) ==
    /\ unit[p].pc = "compute"
    /\ \/ \E r \in ApiResults(unit_cache_type(p), unit_cache_key(p)) :
             unit' = [unit EXCEPT ![p].pc = "save", ![p].computed = r]
       \/ unit' = [unit EXCEPT ![p] = [unit_got_error(@, "Api") EXCEPT
                                           !.api_failed = unit[p].stage]]
    /\ UNCHANGED <<max_concurrent, semaphore, item_status, progress, channel, main>>
    /\ UNCHANGED <<queueVars, cacheVars, extraVars>>

\* get_or_compute: save_stage1_cache / save_stage2_cache
unit_save(p) ==
    /\ unit[p].pc = "save"
    /\ LET tbl == Table(unit_cache_type(p)) IN
       IF CacheKeyIsFree(tbl, unit[p].computed.cache_key)
       THEN /\ SetTable(unit_cache_type(p), save_cache(tbl, unit[p].computed))
            /\ unit' = [unit EXCEPT ![p] = unit_got_result(@, unit[p].computed, FALSE)]
       ELSE /\ unit' = [unit EXCEPT ![p] = unit_got_error(@, "Database")]
            /\ UNCHANGED <<stage1_cache, stage2_cache>>
    /\ UNCHANGED <<cache_metrics, call, cacheCalls, computedKeys, failedKeys>>
    /\ UNCHANGED <<max_concurrent, semaphore, item_status, progress, channel, main>>
    /\ UNCHANGED <<queueVars, extraVars>>

\* variant: the Failed write leaves out the position and marks the whole batch
item_failed_batchwide(st, p) == [q \in DOMAIN st |-> "Failed"]

\* update_item_status(.., Failed { error, retry_count: 0 }) when it succeeds
item_failed(st, p) == update_item_status(st, p, "Failed")

\* the Err arm: update_item_status(.., Failed { .. }).await?; return Err(e)
unit_failed_write(p) ==
    /\ unit[p].pc = "failed_write"
    /\ \/ /\ item_status' = item_failed(item_status, p)
          /\ unit' = [unit EXCEPT ![p].pc = "progress"]
       \/ /\ unit' = [unit EXCEPT ![p].pc = "progress", ![p].error = "Database"]
          /\ UNCHANGED item_status
    /\ UNCHANGED <<max_concurrent, semaphore, progress, channel, main>>
    /\ UNCHANGED <<queueVars, cacheVars, extraVars>>

\* variant: one cached stage is enough
was_fully_cached_either(stage1_cached, stage2_cached) == stage1_cached \/ stage2_cached

\* let was_fully_cached = stage1_cached && stage2_cached
was_fully_cached(stage1_cached, stage2_cached) == stage1_cached /\ stage2_cached

\* update_item_status(.., Completed).await?; Ok((stage2_result, was_fully_cached))
unit_completed_write(p) ==
    /\ unit[p].pc = "completed_write"
    /\ \/ /\ item_status' = update_item_status(item_status, p, "Completed")
          /\ unit' = [unit EXCEPT ![p].pc = "progress", ![p].ok = TRUE,
                         ![p].was_cached = was_fully_cached(unit[p].stage1_cached,
                                                            unit[p].stage2_cached)]
       \/ /\ unit' = [unit EXCEPT ![p].pc = "progress", ![p].error = "Database"]
          /\ UNCHANGED item_status
    /\ UNCHANGED <<max_concurrent, semaphore, progress, channel, main>>
    /\ UNCHANGED <<queueVars, cacheVars, extraVars>>

\* variant: only a successful item counts as completed
update_progress_success_only(prog, ok, was_cached) ==
    [prog EXCEPT !.completed = IF ok THEN @ + 1 ELSE @,
                 !.cached = IF ok /\ was_cached THEN @ + 1 ELSE @,
                 !.failed = IF ok THEN @ ELSE @ + 1]

\* prog.completed += 1; match &result { Ok((_, was_cached)) => cached += 1 if
\* was_cached, Err(_) => failed += 1 }
update_progress(prog, ok, was_cached) ==
    [prog EXCEPT !.completed = @ + 1,
                 !.cached = IF ok /\ was_cached THEN @ + 1 ELSE @,
                 !.failed = IF ok THEN @ ELSE @ + 1]

\* the progress update of the spawned task, under progress.write()
unit_progress(p) ==
    /\ unit[p].pc = "progress"
    /\ progress' = update_progress(progress, unit[p].ok, unit[p].was_cached)
    /\ unit' = [unit EXCEPT ![p].pc = "send"]
    /\ UNCHANGED <<max_concurrent, semaphore, item_status, channel, main>>
    /\ UNCHANGED <<queueVars, cacheVars, extraVars>>

\* variant: the permit goes back only when the item succeeded
drop_permit_on_success(sem, u) == IF u.ok THEN sem + 1 ELSE sem

\* the spawned task's _permit goes out of scope when the task ends, whatever
\* result process_single_item gave
drop_permit(sem, u) == sem + 1

\* tx.send((item, result)).await.ok(); the task ends and drops its permit
unit_send(p) ==
    /\ unit[p].pc = "send"
    /\ Len(channel) < ChannelCapacity
    /\ channel' = Append(channel, [item |-> p, ok |-> unit[p].ok,
                                   stage2_result |-> unit[p].stage2_result,
                                   was_cached |-> unit[p].was_cached,
                                   error |-> unit[p].error])
    /\ unit' = [unit EXCEPT ![p].pc = "done"]
    /\ semaphore' = drop_permit(semaphore, unit[p])
    /\ UNCHANGED <<max_concurrent, item_status, progress, main>>
    /\ UNCHANGED <<queueVars, cacheVars, extraVars>>

\* variant: an Err result is logged and not pushed to failed
collect_result_drop_failed(mn, m) ==
    IF m.ok
    THEN [mn EXCEPT !.successful = Append(@, [item |-> m.item,
                                              stage2_result |-> m.stage2_result]),
                    !.cache_hits = IF m.was_cached THEN @ + 1 ELSE @]
    ELSE mn

\* match result { Ok(..) => successful.push, cache_hits; Err(e) => failed.push }
collect_result(mn, m) ==
    IF m.ok
    THEN [mn EXCEPT !.successful = Append(@, [item |-> m.item,
                                              stage2_result |-> m.stage2_result]),
                    !.cache_hits = IF m.was_cached THEN @ + 1 ELSE @]
    ELSE [mn EXCEPT !.failed = Append(@, [item |-> m.item, error |-> m.error])]

\* one turn of while let Some((item, result)) = rx.recv().await
process_batch_collect ==
    /\ main.pc = "collect"
    /\ channel # <<>>
    /\ main' = collect_result(main, Head(channel))
    /\ channel' = Tail(channel)
    /\ UNCHANGED <<max_concurrent, semaphore, item_status, progress, unit>>
    /\ UNCHANGED <<queueVars, cacheVars, extraVars>>

\* recv() yields None once every sender is dropped; the handles are joined, the
\* progress updater is aborted and Ok(BatchResult) is returned
process_batch_return ==
    /\ main.pc = "collect"
    /\ channel = <<>>
    /\ \A p \in main.items : unit[p].pc = "done"
    /\ main' = [main EXCEPT !.pc = "returned", !.ret = "Ok",
                            !.total_processed = Cardinality(main.items),
                            !.reporter = IF @ = "running" THEN "aborted" ELSE @]
    /\ UNCHANGED <<max_concurrent, semaphore, item_status, progress, unit, channel>>
    /\ UNCHANGED <<queueVars, cacheVars, extraVars>>

\* ---- a second process_batch call that shares self.progress ----

\* the second call before it starts
NoOther == [pc |-> "idle", total |-> 0, finished |-> 0]

\* the second call up to its own spawn loop: it resets the shared progress to
\* its own total
other_process_batch_start(n) ==
    /\ other.pc = "idle"
    /\ progress' = ProcessingProgress_new(n)
    /\ other' = [other EXCEPT !.pc = "running", !.total = n]
    /\ UNCHANGED <<max_concurrent, semaphore, item_status, unit, channel, main>>
    /\ UNCHANGED <<queueVars, cacheVars, keyVars, warm, cache_op, worker,
                   processing_checkpoints, queue_item>>

\* the progress update of one of the second call's tasks, whatever its result
other_unit_progress(ok, cached) ==
    /\ other.pc = "running"
    /\ other.finished < other.total
    /\ progress' = update_progress(progress, ok, cached)
    /\ other' = [other EXCEPT !.finished = @ + 1]
    /\ UNCHANGED <<max_concurrent, semaphore, item_status, unit, channel, main>>
    /\ UNCHANGED <<queueVars, cacheVars, keyVars, warm, cache_op, worker,
                   processing_checkpoints, queue_item>>

\* the second call returns once all its tasks have ended
other_process_batch_return ==
    /\ other.pc = "running"
    /\ other.finished = other.total
    /\ other' = [other EXCEPT !.pc = "returned"]
    /\ UNCHANGED batchVars
    /\ UNCHANGED <<queueVars, cacheVars, keyVars, warm, cache_op, worker,
                   processing_checkpoints, queue_item>>

\* queue_repo.get_incomplete_items(batch_id): the items not yet Completed
get_incomplete_items(st) == {p \in DOMAIN st : st[p] # "Completed"}

\* variant: the whole batch is handed to process_batch again
resume_batch_items_all(incomplete) == Positions

\* the items resume_batch hands to process_batch
resume_batch_items(incomplete) == incomplete

\* resume_batch: the incomplete items are fetched; with none of them an empty
\* BatchResult is returned, otherwise process_batch(incomplete, batch_id) starts
resume_batch ==
    /\ main.pc = "idle"
    /\ LET incomplete == get_incomplete_items(item_status) IN
       IF incomplete = {}
       THEN /\ main' = [main EXCEPT !.pc = "returned", !.ret = "Ok", !.resumed = TRUE]
            /\ UNCHANGED progress
       ELSE /\ progress' = ProcessingProgress_new(Cardinality(resume_batch_items(incomplete)))
            /\ main' = [main EXCEPT !.pc = "checkpoint", !.reporter = "running",
                                    !.resumed = TRUE,
                                    !.items = resume_batch_items(incomplete)]
    /\ UNCHANGED <<max_concurrent, semaphore, item_status, unit, channel>>
    /\ UNCHANGED <<queueVars, cacheVars, extraVars>>

\* the actions of the spawned tasks and of process_batch after its start
BatchSteps ==
    \/ process_batch_checkpoint
    \/ reporter_tick
    \/ \E p \in Positions : unit_acquire(p)
    \/ \E p \in Positions : unit_processing_write(p)
    \/ \E p \in Positions : unit_lookup(p)
    \/ \E p \in Positions : unit_compute(p)
    \/ \E p \in Positions : unit_save(p)
    \/ \E p \in Positions : unit_failed_write(p)
    \/ \E p \in Positions : unit_completed_write(p)
    \/ \E p \in Positions : unit_progress(p)
    \/ \E p \in Positions : unit_send(p)
    \/ process_batch_collect
    \/ process_batch_return

BatchNext ==
    \/ process_batch_start
    \/ process_batch_checkpoint
    \/ reporter_tick
    \/ \E p \in Positions : unit_acquire(p)
    \/ \E p \in Positions : unit_processing_write(p)
    \/ \E p \in Positions : unit_lookup(p)
    \/ \E p \in Positions : unit_compute(p)
    \/ \E p \in Positions : unit_save(p)
    \/ \E p \in Positions : unit_failed_write(p)
    \/ \E p \in Positions : unit_completed_write(p)
    \/ \E p \in Positions : unit_progress(p)
    \/ \E p \in Positions : unit_send(p)
    \/ process_batch_collect
    \/ process_batch_return

InitQueueStore ==
    /\ queue = <<>>
    /\ batch_metadata = <<>>
    /\ tx = NoTx
    /\ ret = NoRet
    /\ calls = 0
    /\ quarantined_ids = {}

\* no get_or_compute call yet, no lookup counted yet
InitCacheCalls ==
    /\ cache_metrics = [t \in CacheType |-> [hit_count |-> 0, miss_count |-> 0]]
    /\ call = [c \in Callers |-> Idle]
    /\ cacheCalls = 0
    /\ computedKeys = {}
    /\ failedKeys = {}

InitStores ==
    /\ InitQueueStore
    /\ stage1_cache = <<>>
    /\ stage2_cache = <<>>
    /\ InitCacheCalls
    /\ warm = WarmIdle /\ cache_op = NoOp /\ worker = [w \in Workers |-> NoWork] /\ queue_item = NoPair /\ other = NoOther /\ processing_checkpoints = <<>>

\* BatchProcessor::new(.., max_concurrent) over a batch of pending items
InitBatch(K) ==
    /\ max_concurrent = K
    /\ semaphore = K
    /\ item_status = [p \in Positions |-> "Pending"]
    /\ progress = ProcessingProgress_new(0)
    /\ unit = [p \in Positions |-> Unspawned]
    /\ channel = <<>>
    /\ main = NotStarted

Init == InitStores /\ InitBatch(MaxConcurrent) /\ InitKeys(NoKeyItems)

\* an empty processing_queue and batch_metadata
NoQueue == [queue |-> <<>>, batch_metadata |-> <<>>]

\* a process started on a database file that holds one of the given queues and
\* cache tables
InitFrom(queues, tables1, tables2) ==
    /\ \E f \in queues : queue = f.queue /\ batch_metadata = f.batch_metadata
    /\ tx = NoTx /\ ret = NoRet /\ calls = 0 /\ quarantined_ids = {}
    /\ stage1_cache \in tables1 /\ stage2_cache \in tables2
    /\ InitCacheCalls
    /\ warm = WarmIdle /\ cache_op = NoOp /\ worker = [w \in Workers |-> NoWork] /\ queue_item = NoPair /\ other = NoOther /\ processing_checkpoints = <<>>
    /\ InitBatch(MaxConcurrent) /\ InitKeys(NoKeyItems)

\* the Queue Store on its own
Spec == Init /\ [][QueueNext]_vars

\* two process_batch calls that overlap on one BatchProcessor
SpecOverlap ==
    Init /\ [][\/ BatchNext
               \/ \E n \in 0..MaxOtherItems : other_process_batch_start(n)
               \/ \E ok \in BOOLEAN, cached \in BOOLEAN : other_unit_progress(ok, cached)
               \/ other_process_batch_return]_vars

\* a QueueItem and its row, started in every status, stage and retry count
InitPair ==
    /\ InitQueueStore /\ stage1_cache = <<>> /\ stage2_cache = <<>> /\ InitCacheCalls
    /\ warm = WarmIdle /\ cache_op = NoOp /\ worker = [w \in Workers |-> NoWork]
    /\ processing_checkpoints = <<>> /\ other = NoOther
    /\ InitBatch(MaxConcurrent) /\ InitKeys(NoKeyItems)
    /\ \E st \in ProcessingStatus, sg \in ProcessingStage, n \in 0..DefaultMaxRetries :
          queue_item = [NoPair EXCEPT
                          !.item = [status |-> st, stage |-> sg, retry_count |-> n,
                                    max_retries |-> DefaultMaxRetries],
                          !.row = [NewQueueRow(1, "b1") EXCEPT
                                     !.status = status_to_string(st),
                                     !.stage = stage_str(sg), !.retry_count = n]]

SpecPair ==
    InitPair /\ [][\E op \in {"complete_stage", "fail_with_retry"} : transition_both(op)]_vars

\* the checkpoint log of the Queue Store
SpecCheckpoints ==
    Init /\ [][\/ \E b \in BatchIds, c \in CheckpointInputs : save_checkpoint(b, c)
               \/ \E b \in BatchIds : get_latest_checkpoint(b)]_vars

\* the Cache Store on its own, two concurrent callers
SpecCache == Init /\ [][CacheNext]_vars

\* one process_batch call, for every max_concurrent up to MaxConcurrent
InitB == InitStores /\ InitKeys(NoKeyItems) /\ \E K \in 0..MaxConcurrent : InitBatch(K)

SpecBatch == InitB /\ [][BatchNext]_vars

\* every step of a spawned task (every provider and store call returns)
unit_step(p) ==
    \/ unit_processing_write(p) \/ unit_lookup(p) \/ unit_compute(p) \/ unit_save(p)
    \/ unit_failed_write(p) \/ unit_completed_write(p) \/ unit_progress(p)
    \/ unit_send(p)

\* the runtime schedules process_batch and every spawned task fairly, and the
\* semaphore admits its waiters first come first served
FairBatch ==
    /\ WF_vars(process_batch_start) /\ WF_vars(process_batch_checkpoint)
    /\ WF_vars(process_batch_collect) /\ WF_vars(process_batch_return)
    /\ \A p \in Positions : SF_vars(unit_acquire(p)) /\ WF_vars(unit_step(p))

SpecBatchLive == InitB /\ [][BatchNext]_vars /\ FairBatch

\* the statuses a batch's items can have been left in by an earlier run
ResumeStatuses == {"Pending", "Processing1", "Completed", "Failed", "Quarantined"}

\* resume_batch over every combination of item statuses
InitResume ==
    /\ InitStores /\ InitKeys(NoKeyItems)
    /\ max_concurrent = 1 /\ semaphore = 1
    /\ item_status \in [Positions -> ResumeStatuses]
    /\ progress = ProcessingProgress_new(0)
    /\ unit = [p \in Positions |-> Unspawned]
    /\ channel = <<>>
    /\ main = NotStarted

SpecResume == InitResume /\ [][resume_batch \/ BatchSteps]_vars

\* key derivation for every pair of items
InitKey ==
    /\ InitStores /\ InitBatch(MaxConcurrent)
    /\ \E a \in KeyItems, b \in KeyItems : InitKeys(<<a, b>>)

SpecKey == InitKey /\ [][KeyNext]_vars

\* two workers over a queue that holds up to MaxRows rows of up to two batches,
\* each row still pending or already taken in progress
SpecWorkers ==
    InitFrom(UNION {{[queue |-> [i \in 1..(n[1] + n[2]) |->
                                  [NewQueueRow(IF i <= n[1] THEN i ELSE i - n[1],
                                               IF i <= n[1] THEN n[3] ELSE n[4])
                                     EXCEPT !.status = st[i]]],
                      batch_metadata |->
                         IF n[2] = 0 THEN <<NewBatchMetadata(n[3], n[1])>>
                         ELSE <<NewBatchMetadata(n[3], n[1]), NewBatchMetadata(n[4], n[2])>>]
                        : st \in [1..(n[1] + n[2]) -> {"pending", "in_progress"}]}
                       : n \in {m \in (0..MaxRows) \X (0..MaxRows) \X BatchIds \X BatchIds :
                                  m[3] # m[4] /\ m[1] > 0 /\ m[1] + m[2] <= MaxRows}},
             {<<>>}, {<<>>})
    /\ [][\/ \E w \in Workers, b \in BatchIds \cup {None} : worker_get_next_pending(w, b)
          \/ \E w \in Workers : worker_update_status(w)]_vars

\* one caller's get_or_compute and clear_cache on one Cache Store
SpecClear ==
    Init /\ [][\/ \E t \in CacheType : \E k \in KeysOf(t) : get_or_compute_lookup(1, t, k)
               \/ get_or_compute_compute(1)
               \/ get_or_compute_save(1)
               \/ \E scope \in CacheType \cup {None} : clear_cache(scope)
               \/ clear_cache_second]_vars

\* a processing_queue row of batch b1 as the database file can hold it: the
\* status and stage strings are the known ones a fresh or advanced item has, or
\* one that maps to no variant
StoredQueueRows ==
    [vocabulary_id : {1}, batch_id : {"b1"}, status : {"pending", "bogus"},
     stage : {"stage1", "stage2", "bogus"},
     retry_count : {0}, max_retries : {DefaultMaxRetries}]

\* the Queue Store reading a database file that holds one batch
SpecRows ==
    InitFrom(UNION {{[queue |-> q, batch_metadata |-> <<NewBatchMetadata("b1", n)>>]
                        : q \in [1..n -> StoredQueueRows]} : n \in 1..MaxRows},
             {<<>>}, {<<>>})
    /\ [][\/ \E b \in BatchIds : get_batch_progress(b)
          \/ \E b \in BatchIds \cup {None} : get_next_pending(b)
          \/ \E i \in 1..MaxRows : complete_stage(i)]_vars

\* the tables the database file can hold when the process starts: at most one
\* row for each stage, decodable or not
StoredTables(keys) ==
    {<<>>} \cup
    {<<r>> : r \in [vocabulary_id : {1}, cache_key : keys,
                    response_json : [request_id : {"req"},
                                     content : {"p1"} \cup Undecodable],
                    access_count : {0}]}

\* one caller's get_or_compute over a database whose rows need not decode
SpecDecode ==
    InitFrom({NoQueue}, StoredTables(Stage1Keys), StoredTables(Stage2Keys))
    /\ [][\/ \E t \in CacheType : \E k \in KeysOf(t) : get_or_compute_lookup(1, t, k)
          \/ get_or_compute_compute(1)
          \/ get_or_compute_save(1)]_vars

\* one caller's get_or_compute and get_cache_stats over a database whose
\* stage1_cache rows need not decode
SpecStats ==
    InitFrom({NoQueue}, StoredTables(Stage1Keys), {<<>>})
    /\ [][\/ \E t \in CacheType : \E k \in KeysOf(t) : get_or_compute_lookup(1, t, k)
          \/ get_or_compute_compute(1)
          \/ get_or_compute_save(1)
          \/ get_cache_stats]_vars

\* warm_cache_for_batch over every cache content earlier saves can have left
SpecWarm ==
    InitFrom({NoQueue}, {TableOfKeys(k1) : k1 \in SUBSET Stage1Keys},
             {TableOfKeys(k2) : k2 \in SUBSET Stage2Keys})
    /\ [][WarmNext]_vars

(***************************************************************************)
(* Queue Store claims                                                      *)
(***************************************************************************)
RowIds == 1..Len(queue)

\* C5 (batch atomicity): in every state a batch has either no metadata row and
\* no queue row, or one metadata row with total_items = N and exactly N queue
\* rows; a committing enqueue_batch returns N and adds N fresh rows (pending,
\* stage1, retry_count 0, max_retries 3); a failing one changes no table.
C5_Visible ==
    \A b \in BatchIds :
        \/ MetaOfBatch(batch_metadata, b) = {} /\ RowsOfBatch(queue, b) = {}
        \/ /\ Cardinality(MetaOfBatch(batch_metadata, b)) = 1
           /\ \A k \in MetaOfBatch(batch_metadata, b) :
                 Cardinality(RowsOfBatch(queue, b)) = batch_metadata[k].total_items

C5_Return ==
    /\ enqueue_batch_commit =>
         /\ ret'.ok /\ ret'.value = tx.n
         /\ Len(queue') = Len(queue) + tx.n
         /\ \A i \in 1..Len(queue) : queue'[i] = queue[i]
         /\ \A i \in (Len(queue) + 1)..Len(queue') :
               /\ queue'[i].batch_id = tx.batch_id
               /\ queue'[i].status = "pending" /\ queue'[i].stage = "stage1"
               /\ queue'[i].retry_count = 0 /\ queue'[i].max_retries = 3
         /\ \E k \in MetaOfBatch(batch_metadata', tx.batch_id) :
               batch_metadata'[k].total_items = tx.n
    /\ enqueue_batch_fail =>
         /\ ~ret'.ok
         /\ queue' = queue /\ batch_metadata' = batch_metadata

C5_BatchAtomicity == [](C5_Visible) /\ [][C5_Return]_vars

\* a transaction that has written one of its two rows, none of them visible
C5_Witness ==
    /\ tx.active /\ tx.n = 2 /\ tx.inserted = 1
    /\ RowsOfBatch(queue, tx.batch_id) = {}
    /\ MetaOfBatch(batch_metadata, tx.batch_id) = {}

\* C6 (stage legality): complete_stage on a stage1 item yields (stage2, pending)
\* and returns Stage2; on a stage2 item yields (complete, completed) and returns
\* Complete; on a complete item it returns a Validation error and changes nothing.
C6_StageLegality ==
    [][\A i \in RowIds : complete_stage(i) =>
          /\ queue[i].stage = "stage1" =>
                /\ queue'[i].stage = "stage2" /\ queue'[i].status = "pending"
                /\ ret'.ok /\ ret'.value = "Stage2"
          /\ queue[i].stage = "stage2" =>
                /\ queue'[i].stage = "complete" /\ queue'[i].status = "completed"
                /\ ret'.ok /\ ret'.value = "Complete"
          /\ queue[i].stage = "complete" =>
                /\ ~ret'.ok /\ ret'.value = "Validation"
                /\ queue' = queue /\ batch_metadata' = batch_metadata]_vars

\* complete_stage was refused on an item that is already complete
C6_Witness ==
    /\ ret.op = "complete_stage" /\ ~ret.ok /\ ret.value = "Validation"
    /\ \E i \in RowIds : queue[i].stage = "complete" /\ queue[i].status = "completed"

\* C7 (retry/quarantine): retry_count starts at 0 and changes only by
\* increment_retry, one at a time; a call that brings it to less than max_retries
\* returns true and leaves the item pending, the call that brings it to
\* max_retries returns false and leaves the item quarantined.
C7_RetryQuarantine ==
    [][\A i \in RowIds :
          /\ queue'[i].retry_count # queue[i].retry_count => increment_retry(i)
          /\ (increment_retry(i) /\ queue[i].retry_count < queue[i].max_retries) =>
                /\ queue'[i].retry_count = queue[i].retry_count + 1
                /\ queue'[i].retry_count < queue[i].max_retries =>
                      ret'.ok /\ ret'.value = TRUE /\ queue'[i].status = "pending"
                /\ queue'[i].retry_count = queue[i].max_retries =>
                      ret'.ok /\ ret'.value = FALSE /\ queue'[i].status = "quarantined"]_vars

\* the third increment_retry on an item returned false and quarantined it
C7_Witness ==
    /\ ret.op = "increment_retry" /\ ret.ok /\ ret.value = FALSE
    /\ \E i \in RowIds : /\ queue[i].retry_count = 3 /\ queue[i].max_retries = 3
                         /\ queue[i].status = "quarantined"

\* C8 (as claimed): every queue item has retry_count <= max_retries.
C8_RetryWithinMax == \A i \in RowIds : queue[i].retry_count <= queue[i].max_retries

\* C9 (as claimed): once an item is quarantined, no operation changes its
\* status, stage or retry_count.
C9_QuarantinedFinal ==
    [][\A i \in RowIds : queue[i].status = "quarantined" =>
          /\ queue'[i].status = queue[i].status
          /\ queue'[i].stage = queue[i].stage
          /\ queue'[i].retry_count = queue[i].retry_count]_vars

\* C10 (progress arithmetic): the progress get_batch_progress returns counts
\* every row of the batch once, under its current status, the five counts add
\* up to total_items, and is_complete holds iff no row is pending or in progress.
RowsWithStatus(b, s) == {i \in RowsOfBatch(queue, b) : queue[i].status = s}

C10_ProgressArithmetic ==
    \A b \in BatchIds :
       (ret.op = "get_batch_progress" /\ ret.ok /\ ret.value.batch_id = b) =>
          LET p == ret.value IN
          /\ p.completed_items = Cardinality(RowsWithStatus(b, "completed"))
          /\ p.failed_items = Cardinality(RowsWithStatus(b, "failed"))
          /\ p.quarantined_items = Cardinality(RowsWithStatus(b, "quarantined"))
          /\ p.pending_items = Cardinality(RowsWithStatus(b, "pending"))
          /\ p.in_progress_items = Cardinality(RowsWithStatus(b, "in_progress"))
          /\ p.completed_items + p.failed_items + p.quarantined_items
                + p.pending_items + p.in_progress_items = p.total_items
          /\ is_complete(p) <=>
                (RowsWithStatus(b, "pending") = {} /\ RowsWithStatus(b, "in_progress") = {})

\* a progress report of a two-item batch with one failed and one in-progress item
C10_Witness ==
    /\ ret.op = "get_batch_progress" /\ ret.ok
    /\ ret.value.total_items = 2 /\ ret.value.failed_items = 1
    /\ ret.value.in_progress_items = 1 /\ ~is_complete(ret.value)
(***************************************************************************)
(* Cache Store claims                                                      *)
(***************************************************************************)
\* the producer of call c was invoked and returned Ok
ProducerSucceeded(c) == call[c].invoked = 1 /\ call[c].error # "Api"

HasEntryUnder(cache_type, cache_key) ==
    \E i \in 1..Len(Table(cache_type)) : Table(cache_type)[i].cache_key = cache_key

HasEntry(cache_type, cache_key, content) ==
    \E i \in 1..Len(Table(cache_type)) :
        /\ Table(cache_type)[i].cache_key = cache_key
        /\ Table(cache_type)[i].response_json.content = content

\* C1 (as claimed): a call that finds no entry under its key and whose producer
\* succeeds invokes the producer once, returns Ok and leaves the result stored
\* under that key; a call on a key for which that has happened is served from
\* the cache without invoking its producer.
C1_CacheRoundTrip ==
    \A c \in Callers :
        /\ (call[c].pc = "done" /\ ~call[c].hit /\ ProducerSucceeded(c)) =>
              /\ call[c].ok
              /\ HasEntry(call[c].cache_type, call[c].cache_key, call[c].result.content)
        /\ (call[c].pc # "idle" /\ call[c].after_computed) =>
              /\ call[c].hit /\ call[c].invoked = 0
              /\ HasEntry(call[c].cache_type, call[c].cache_key, call[c].result.content)

\* C2 (failure is not cached): the step in which a producer fails returns the
\* producer's error and writes no cache row; the tables only ever hold results
\* of producers that succeeded; a later call on the same key that finds no
\* entry invokes its own producer.
C2_FailureStep ==
    \A c \in Callers :
        (call[c].pc = "compute" /\ call'[c].pc = "done") =>
            /\ ~call'[c].ok /\ call'[c].error = "Api"
            /\ stage1_cache' = stage1_cache /\ stage2_cache' = stage2_cache

C2_NoCachedFailure ==
    /\ \A t \in CacheType : \A i \in 1..Len(Table(t)) :
           Table(t)[i].response_json.content \in Contents
    /\ \A c \in Callers :
           (call[c].after_failed /\ call[c].cache_key \notin computedKeys
              /\ ~HasEntryUnder(call[c].cache_type, call[c].cache_key)) =>
                 /\ ~call[c].hit
                 /\ call[c].pc \in {"save", "done"} => call[c].invoked = 1

C2_FailureNotCached == [](C2_NoCachedFailure) /\ [][C2_FailureStep]_vars

\* after a producer failed for a key, a later call on that key invoked its producer
C2_Witness ==
    \E c \in Callers :
        /\ call[c].after_failed /\ ~call[c].hit /\ call[c].invoked = 1
        /\ call[c].pc = "done" /\ call[c].ok
        /\ call[c].cache_key \in failedKeys

(***************************************************************************)
(* Batch Orchestrator claims                                               *)
(***************************************************************************)
\* the unit of position p holds a permit
HoldsPermit(p) == unit[p].pc \notin {"unspawned", "acquire", "done"}

\* position p is in status InProgress and its unit has not delivered its outcome
InProgress(p) ==
    /\ item_status[p] \in {"Processing1", "Processing2"}
    /\ unit[p].pc # "done"

InSuccessful(p) == \E k \in 1..Len(main.successful) : main.successful[k].item = p
InFailed(p) == \E k \in 1..Len(main.failed) : main.failed[k].item = p

\* C3 (concurrency bound): with max_concurrent = K, in every reachable state of
\* process_batch at most K items are in status InProgress, that is between
\* their InProgress status write and the outcome of their unit of work.
C3_ConcurrencyBound ==
    Cardinality({p \in Positions : InProgress(p)}) <= max_concurrent

\* more items than permits: K of them in progress while another one waits
C3_Witness ==
    /\ NumItems > max_concurrent /\ max_concurrent >= 1
    /\ Cardinality({p \in Positions : InProgress(p)}) = max_concurrent
    /\ \E p \in Positions : unit[p].pc = "acquire"

Occurrences(list, p) == Cardinality({k \in 1..Len(list) : list[k].item = p})

\* C11 (result partition): after process_batch returned Ok every input item
\* occurs exactly once in successful or failed, total_processed = |items| =
\* |successful| + |failed|, and an item is in failed exactly when its queue
\* status did not reach Completed.
C11_ResultPartition ==
    (main.pc = "returned" /\ main.ret = "Ok") =>
        /\ \A p \in Positions :
              /\ Occurrences(main.successful, p) + Occurrences(main.failed, p) = 1
              /\ InFailed(p) <=> item_status[p] # "Completed"
        /\ main.total_processed = NumItems
        /\ main.total_processed = Len(main.successful) + Len(main.failed)

\* returned Ok with an item whose Completed write was refused in failed and
\* another item in successful
C11_Witness ==
    /\ main.pc = "returned" /\ main.ret = "Ok"
    /\ \E p, q \in Positions :
          /\ InFailed(p) /\ unit[p].error = "Database" /\ item_status[p] = "Processing2"
          /\ InSuccessful(q) /\ item_status[q] = "Completed"

\* the unit of position p is at a stage-2 step or has been through one
Stage2Step(p) == unit[p].stage = 2 /\ unit[p].pc \in {"lookup", "compute", "save"}

\* stage 1 of position p failed: get_or_compute_stage1 returned Err
Stage1Failed(p) ==
    /\ unit[p].stage = 1
    /\ unit[p].pc \in {"failed_write", "progress", "send", "done"}
    /\ unit[p].stage1_result = NoResult

C12_State ==
    \A p \in Positions :
        /\ unit[p].stage = 2 =>
              /\ unit[p].stage1_result \in ProducerResults("stage1")
              /\ unit[p].api_failed # 1
        /\ unit[p].stage = 1 =>
              /\ unit[p].stage2_result = NoResult
              /\ unit[p].pc \notin {"completed_write"}
        /\ (Stage1Failed(p) /\ unit[p].error = "Api"
              /\ unit[p].pc \in {"progress", "send", "done"}) => item_status[p] = "Failed"

C12_Step ==
    \A p \in Positions :
        /\ Stage1Failed(p) => Stage1Failed(p)' /\ ~Stage2Step(p)'
        /\ (Stage1Failed(p) /\ unit[p].pc = "failed_write" /\ unit'[p].pc # "failed_write") =>
              \/ item_status'[p] = "Failed"
              \/ unit'[p].error = "Database" /\ item_status' = item_status

\* C12 (stage order): an item's Stage-2 step (lookup or provider call) happens
\* only once a Stage-1 result for it was obtained; when Stage 1 fails the Failed
\* status write is made and no Stage-2 step is ever executed for the item.
C12_StageOrder == [](C12_State) /\ [][C12_Step]_vars

\* one item ended Failed after its stage-1 provider call failed while another
\* item is at its stage-2 provider call
C12_Witness ==
    \E p, q \in Positions :
        /\ Stage1Failed(p) /\ unit[p].api_failed = 1 /\ unit[p].pc = "done"
        /\ item_status[p] = "Failed"
        /\ Stage2Step(q) /\ unit[q].pc = "compute"

(***************************************************************************)
(* Cache Store claims, continued                                           *)
(***************************************************************************)
EntriesUnder(cache_type, cache_key) ==
    {i \in 1..Len(Table(cache_type)) : Table(cache_type)[i].cache_key = cache_key}

\* the call of c missed, its producer succeeded with a result carrying the
\* looked-up key, and the call has returned
MissedAndComputed(c) ==
    /\ call[c].pc = "done" /\ ~call[c].hit /\ ProducerSucceeded(c)
    /\ call[c].result.cache_key = call[c].cache_key

\* C13 (as claimed): no table ever holds two entries for one key, and when two
\* get_or_compute calls on the same key both miss and both producers succeed,
\* both calls return their result and exactly one entry exists under the key.
C13_AtMostOnce ==
    /\ \A t \in CacheType : \A k \in KeysOf(t) : Cardinality(EntriesUnder(t, k)) <= 1
    /\ \A c, c2 \in Callers :
          (/\ c # c2
           /\ MissedAndComputed(c) /\ MissedAndComputed(c2)
           /\ call[c].cache_type = call[c2].cache_type
           /\ call[c].cache_key = call[c2].cache_key) =>
              /\ call[c].ok /\ call[c2].ok
              /\ Cardinality(EntriesUnder(call[c].cache_type, call[c].cache_key)) = 1

(***************************************************************************)
(* Content Key Deriver claims                                              *)
(***************************************************************************)
SemanticFields(item) ==
    <<item.korean, item.english, item.category, item.hanja, item.example_sentence>>

BothDerived == key_calls[1] > 0 /\ key_calls[2] > 0

\* C14 (as claimed): two items that differ in a semantic field derive
\* different item keys (the digest taken as collision-free on its input bytes).
C14_KeySensitivity ==
    (BothDerived /\ SemanticFields(key_items[1]) # SemanticFields(key_items[2])) =>
        key_results[1].item_key # key_results[2].item_key

C15_State ==
    (BothDerived /\ SemanticFields(key_items[1]) = SemanticFields(key_items[2])) =>
        key_results[1] = key_results[2]

C15_Step ==
    \A i \in 1..2 :
        (key_calls[i] > 0 /\ key_calls'[i] = key_calls[i] + 1) =>
            key_results'[i] = key_results[i]

\* C15 (determinism, independence from non-semantic fields): deriving the keys
\* of an item again yields the same keys, and two items with identical semantic
\* fields but different ids have the same item key, Stage-1 key and Stage-2 key.
C15_KeyDeterminism == [](C15_State) /\ [][C15_Step]_vars

\* two items with the same semantic fields and different ids, each derived twice
C15_Witness ==
    /\ key_calls = <<2, 2>>
    /\ key_items[1].id # key_items[2].id
    /\ SemanticFields(key_items[1]) = SemanticFields(key_items[2])
    /\ key_items[1].korean # <<>> /\ key_items[1].hanja # <<>>
    /\ key_results[1].item_key = key_results[2].item_key

(***************************************************************************)
(* Batch Orchestrator claims, continued                                    *)
(***************************************************************************)
\* C16 (as claimed): a Compute Provider error on an item leads to a retry
\* (status Pending, or Quarantined once max_retries is reached) and not to an
\* immediate terminal Failed status.
C16_RetryOnProviderError ==
    \A p \in Positions :
        (unit[p].api_failed # 0 /\ unit[p].error = "Api"
            /\ unit[p].pc \in {"progress", "send", "done"}) =>
                item_status[p] \in {"Pending", "Quarantined"}

(***************************************************************************)
(* warm_cache_for_batch claims                                             *)
(***************************************************************************)
\* the entries of a cache table: key and payload
Entries(tbl) == {<<tbl[i].cache_key, tbl[i].response_json>> : i \in 1..Len(tbl)}

\* C17 (warm-cache frame): no step of warm_cache_for_batch starts or advances a
\* get_or_compute call (no producer is invoked), and every step leaves the
\* entries of both cache tables, keys and payloads, as they were.
C17_WarmFrame ==
    [][warm' # warm =>
          /\ Entries(stage1_cache') = Entries(stage1_cache)
          /\ Entries(stage2_cache') = Entries(stage2_cache)
          /\ Len(stage1_cache') = Len(stage1_cache)
          /\ Len(stage2_cache') = Len(stage2_cache)
          /\ call' = call /\ cacheCalls' = cacheCalls]_vars

\* a finished call that saw a stage-1 hit, a stage-2 miss and a stage-1 miss
C17_Witness ==
    /\ warm.pc = "done" /\ Len(warm.vocabulary_items) = 2
    /\ warm.stage1_hits = 1 /\ warm.stage2_hits = 0
    /\ cache_metrics["stage1"].miss_count = 1 /\ cache_metrics["stage2"].miss_count = 1
    /\ stage1_cache # <<>>

WarmStage1Cached(i) ==
    HasEntryUnder("stage1", Stage1Result_generate_cache_key(warm.vocabulary_items[i]))

WarmStage2Cached(i) ==
    /\ WarmStage1Cached(i)
    /\ HasEntryUnder("stage2",
          Stage2Result_generate_cache_key(warm.vocabulary_items[i],
              Stage1Result_generate_cache_key(warm.vocabulary_items[i])))

\* C18 (warm-cache counts): stage1_cached is the number of items whose Stage-1
\* key has an entry, stage2_cached the number of items with both a Stage-1 and
\* a Stage-2 entry, and each missing count is total_items minus the cached one.
C18_WarmCounts ==
    warm.pc = "done" =>
        LET n == Len(warm.vocabulary_items) IN
        /\ warm.stats.total_items = n
        /\ warm.stats.stage1_cached = Cardinality({i \in 1..n : WarmStage1Cached(i)})
        /\ warm.stats.stage2_cached = Cardinality({i \in 1..n : WarmStage2Cached(i)})
        /\ warm.stats.stage2_cached <= warm.stats.stage1_cached
        /\ warm.stats.stage1_missing = n - warm.stats.stage1_cached
        /\ warm.stats.stage2_missing = n - warm.stats.stage2_cached

\* two items, both with a Stage-1 entry, one of them with a Stage-2 entry too
C18_Witness ==
    /\ warm.pc = "done"
    /\ warm.stats = [total_items |-> 2, stage1_cached |-> 2, stage2_cached |-> 1,
                     stage1_missing |-> 0, stage2_missing |-> 1]

\* ---------------------------------------------------------------------------
\* C19: resume_batch runs the per-item algorithm on exactly the items whose
\* status is not Completed.  A Completed item is never spawned and its status is
\* never written; when the resumed run returns Ok every other item has been
\* processed and reported; with no incomplete item the result is empty
\* (no successes, no failures, total_processed 0) and neither a checkpoint nor a
\* status nor the progress is written.
C19_State ==
    main.resumed =>
        /\ \A p \in Positions \ main.items :
              /\ unit[p] = Unspawned
              /\ main.items # {} => item_status[p] = "Completed"
        /\ (main.pc = "returned" /\ main.ret = "Ok" /\ main.items # {}) =>
              /\ main.total_processed = Cardinality(main.items)
              /\ \A p \in main.items :
                    /\ unit[p].pc = "done"
                    /\ InSuccessful(p) \/ InFailed(p)
        /\ main.items = {} =>
              /\ main.pc = "returned" /\ main.ret = "Ok"
              /\ main.successful = <<>> /\ main.failed = <<>>
              /\ main.total_processed = 0 /\ main.cache_hits = 0
              /\ ~main.checkpoint
              /\ progress = ProcessingProgress_new(0)
              /\ \A p \in Positions : item_status[p] = "Completed"

C19_Step ==
    /\ (main.pc = "idle" /\ main'.pc # "idle") =>
          main'.items = {p \in Positions : item_status[p] # "Completed"}
    /\ \A p \in Positions :
          (item_status[p] = "Completed" /\ (main.pc = "idle" \/ p \notin main.items)) =>
              /\ item_status'[p] = "Completed"
              /\ unit'[p] = Unspawned

C19_ResumeExactlyIncomplete == [](C19_State) /\ [][C19_Step]_vars

\* a resumed run that skipped a Completed item and processed a Failed one
C19_Witness ==
    /\ main.resumed /\ main.pc = "returned" /\ main.ret = "Ok"
    /\ \E p, q \in Positions :
          /\ p \notin main.items /\ item_status[p] = "Completed" /\ unit[p] = Unspawned
          /\ q \in main.items /\ unit[q].pc = "done" /\ item_status[q] = "Completed"
          /\ InSuccessful(q)

\* ---------------------------------------------------------------------------
\* C20: a Quarantined item is excluded from all automatic processing: in no
\* state reachable after an item was quarantined does get_next_pending return it.
C20_QuarantinedExcluded ==
    (ret.op = "get_next_pending" /\ ret.ok /\ ret.value.id # 0) =>
        ret.value.id \notin quarantined_ids

(***************************************************************************)
(* Cache Store claims over stored rows that need not decode                *)
(***************************************************************************)
\* the row stored under the key, if it does not decode
UndecodableUnder(cache_type, cache_key) ==
    LET tbl == Table(cache_type)
        id == get_cache_row(tbl, cache_key)
    IN id # 0 /\ tbl[id].response_json.content \in Undecodable

\* C21: a stored entry that cannot be decoded is treated as a miss for its key:
\* a finished get_or_compute on such a key has invoked the producer once and
\* does not return the decoding error.
C21_DecodeErrorIsMiss ==
    \A c \in Callers :
        (call[c].pc = "done" /\ UndecodableUnder(call[c].cache_type, call[c].cache_key)) =>
            /\ call[c].invoked = 1
            /\ call[c].error \notin {"Serialization", "Cache"}

(***************************************************************************)
(* Queue Store claims over stored rows whose strings need not be known     *)
(***************************************************************************)
KnownStatus == {status_to_string(st) : st \in ProcessingStatus}
KnownStage == {"stage1", "stage2", "complete"}

\* C22: every Queue Store operation that reads a status or stage string back
\* fails with a Validation error when the string maps to no known variant:
\* get_batch_progress succeeds only over rows of known status, get_next_pending
\* returns only items of known status and stage, complete_stage never writes a
\* row of unknown stage and a complete_stage that wrote nothing returned an error.
C22_State ==
    /\ (ret.op = "get_batch_progress" /\ ret.ok) =>
          \A i \in RowsOfBatch(queue, ret.value.batch_id) : queue[i].status \in KnownStatus
    /\ (ret.op = "get_next_pending" /\ ret.ok /\ ret.value.id # 0) =>
          ret.value.status \in KnownStatus /\ ret.value.stage \in KnownStage

C22_Step ==
    (calls' # calls /\ ret'.op = "complete_stage") =>
        /\ \A i \in 1..Len(queue) : queue[i].stage \notin KnownStage => queue'[i] = queue[i]
        /\ queue' = queue => ~ret'.ok /\ ret'.value \in {"Validation", "Database"}

C22_UnknownStringRejected == [](C22_State) /\ [][C22_Step]_vars

(***************************************************************************)
(* Batch Orchestrator: termination                                         *)
(***************************************************************************)
\* C23: under fair scheduling, and with every provider and store call
\* returning, process_batch eventually returns for every max_concurrent the
\* constructor accepts, and a unit waiting for a slot is eventually admitted.
C23_Termination ==
    /\ <>(main.pc = "returned")
    /\ \A p \in Positions : (unit[p].pc = "acquire") ~> (unit[p].pc # "acquire")

(***************************************************************************)
(* Queue Store: the stored batch aggregate                                 *)
(***************************************************************************)
\* the stored aggregate of batch b equals the one derived from the rows
AggregateMatches(q, m, b) ==
    LET done == CountStatus(q, b, "pending") = 0 /\ CountStatus(q, b, "in_progress") = 0
        bad == CountStatus(q, b, "failed") > 0 \/ CountStatus(q, b, "quarantined") > 0
    IN \A k \in MetaOfBatch(m, b) :
          /\ m[k].completed_items = CountStatus(q, b, "completed")
          /\ m[k].failed_items = CountStatus(q, b, "failed")
          /\ m[k].quarantined_items = CountStatus(q, b, "quarantined")
          /\ m[k].status = IF ~done THEN "in_progress"
                           ELSE IF bad THEN "partial" ELSE "completed"

\* C24: whenever a Queue Store operation moves an item to a terminal status
\* (completed, failed, quarantined), the stored aggregate of the owning batch is
\* recomputed in the same operation and equals the counts derived from the rows.
C24_AggregateRecomputed ==
    [][\A i \in 1..Len(queue) :
          (/\ queue'[i].status \in {"completed", "failed", "quarantined"}
           /\ queue'[i].status # queue[i].status) =>
              AggregateMatches(queue', batch_metadata', queue'[i].batch_id)]_vars

(***************************************************************************)
(* Cache Store: clear_cache                                                *)
(***************************************************************************)
\* C25: clear_cache(scope) removes exactly the entries of its scope and returns
\* their number: with a stage that table becomes empty and the other one is
\* unchanged, with no stage first stage1_cache and then stage2_cache is emptied
\* and the count is the sum; a lookup goes on to the producer exactly when it
\* finds no entry under its key.
C25_Step ==
    /\ \A t \in CacheType :
          (cache_op.pc # "second" /\ cache_op' # cache_op /\ cache_op'.scope = t) =>
              /\ Table(t)' = <<>>
              /\ \A o \in CacheType \ {t} : Table(o)' = Table(o)
              /\ cache_op'.pc = "done" /\ cache_op'.count = Len(Table(t))
    /\ (cache_op.pc # "second" /\ cache_op'.pc = "second") =>
          /\ stage1_cache' = <<>> /\ stage2_cache' = stage2_cache
          /\ cache_op'.count = Len(stage1_cache)
    /\ (cache_op.pc = "second" /\ cache_op'.pc # "second") =>
          /\ stage2_cache' = <<>> /\ stage1_cache' = stage1_cache
          /\ cache_op'.pc = "done" /\ cache_op'.count = cache_op.count + Len(stage2_cache)
    /\ cacheCalls' # cacheCalls =>
          \E c \in Callers :
             \/ /\ call[c].pc # "compute" /\ call'[c].pc = "compute"
                /\ get_cache_row(Table(call'[c].cache_type), call'[c].cache_key) = 0
             \/ /\ call'[c].pc = "done" /\ call'[c].hit
                /\ get_cache_row(Table(call'[c].cache_type), call'[c].cache_key) # 0
                /\ cache_metrics'[call'[c].cache_type].hit_count =
                      cache_metrics[call'[c].cache_type].hit_count + 1

C25_ClearCache == [][C25_Step]_vars

\* a key was computed and saved, the cache was cleared, and the next
\* get_or_compute on that key invoked the producer again
C25_Witness ==
    /\ cache_op.op = "clear_cache" /\ cache_op.pc = "done" /\ cache_op.count > 0
    /\ \E c \in Callers :
          /\ call[c].after_computed /\ ~call[c].hit /\ call[c].invoked = 1
          /\ call[c].pc = "done" /\ call[c].ok

(***************************************************************************)
(* Queue Store: workers taking items                                       *)
(***************************************************************************)
\* C26: get_next_pending(batch) returns the pending item of that batch (of any
\* batch when unscoped) that was created earliest, never an item of another
\* status or batch, and None exactly when there is no such pending item.
C26_Step ==
    \A w \in Workers :
        (worker[w].pc = "idle" /\ worker'[w].pc # "idle") =>
            LET b == worker'[w].batch_id
                it == worker'[w].item
                rows == {i \in 1..Len(queue) :
                            /\ queue[i].status = "pending"
                            /\ b = None \/ queue[i].batch_id = b}
            IN /\ it = 0 <=> rows = {}
               /\ it # 0 => it \in rows /\ \A j \in rows : it <= j

C26_OldestPending == [][C26_Step]_vars

\* a scoped call that passed over an earlier pending row of the other batch
C26_Witness ==
    \E w \in Workers :
        /\ worker[w].pc = "got" /\ worker[w].item = 2 /\ worker[w].batch_id = "b2"
        /\ queue[1].status = "pending" /\ queue[1].batch_id = "b1"
        /\ queue[2].status = "pending"

\* the items a worker has been handed: the one it got and those it has claimed
Held(w) == worker[w].claimed \cup (IF worker[w].pc = "got" THEN {worker[w].item} ELSE {})

C28_SavedUnderLookedUpKey ==
    \A c \in Callers :
        (call[c].pc = "done" /\ call[c].ok /\ ~call[c].hit /\ call[c].invoked = 1) =>
            HasEntryUnder(call[c].cache_type, call[c].cache_key)

\* two calls are on the same key and neither was served from the cache
BothMissed(v, w) ==
    /\ v # w
    /\ call[v].pc \in {"save", "done"} /\ call[w].pc \in {"save", "done"}
    /\ call[v].cache_type = call[w].cache_type /\ call[v].cache_key = call[w].cache_key
    /\ ~call[v].hit /\ ~call[w].hit
    /\ call[v].error # "Api" /\ call[w].error # "Api"

\* C29: get_or_compute gives no at-most-once execution across concurrent
\* misses: of two calls on the same key that both missed, each one has invoked
\* its own producer, so the producer has run twice for that key.
C29_ConcurrentMisses ==
    \A v \in Callers, w \in Callers :
        BothMissed(v, w) => call[v].invoked = 1 /\ call[w].invoked = 1

\* both lookups missed before either call saved, and both producers have run
C29_Witness ==
    \E v \in Callers, w \in Callers :
        /\ BothMissed(v, w)
        /\ ~call[v].after_computed /\ ~call[w].after_computed
        /\ call[v].invoked = 1 /\ call[w].invoked = 1

(***************************************************************************)
(* Cache Store: hit and miss metrics                                       *)
(***************************************************************************)
\* C27: every cache lookup made by get_or_compute records exactly one hit or
\* one miss, and get_cache_stats reports the recorded hits and misses with
\* hit_rate = hits / (hits + misses), 0 when there was no lookup.
C27_Step ==
    /\ cacheCalls' # cacheCalls =>
          total_hits(cache_metrics') + total_misses(cache_metrics')
             = total_hits(cache_metrics) + total_misses(cache_metrics) + 1
    /\ (cache_op' # cache_op /\ cache_op'.op = "get_cache_stats") =>
          LET st == cache_op'.stats
              h == total_hits(cache_metrics)
              m == total_misses(cache_metrics)
          IN /\ st.total_hits = h /\ st.total_misses = m
             /\ st.hit_rate.den > 0
             /\ st.hit_rate.num * (h + m) = h * st.hit_rate.den
             /\ h + m = 0 => st.hit_rate.num = 0

C27_HitMissMetrics == [][C27_Step]_vars

(***************************************************************************)
(* Batch Orchestrator: permits                                             *)
(***************************************************************************)
\* the units holding a permit
PermitHolders == {p \in Positions : HoldsPermit(p)}

C31_State ==
    /\ semaphore \in 0..max_concurrent
    /\ Cardinality(PermitHolders) + semaphore = max_concurrent
    /\ main.pc = "returned" => semaphore = max_concurrent /\ PermitHolders = {}

C31_Step ==
    \A p \in Positions :
        /\ item_status'[p] # item_status[p] => HoldsPermit(p) /\ HoldsPermit(p)'
        /\ (unit[p].pc = "acquire" /\ unit'[p].pc # "acquire") =>
              /\ semaphore' = semaphore - 1
              /\ unit'[p].pc = "processing_write" /\ unit'[p].stage = 1
        /\ (HoldsPermit(p) /\ ~HoldsPermit(p)') =>
              /\ unit'[p].pc = "done" /\ semaphore' = semaphore + 1
              /\ unit[p].ok \/ unit[p].error # None

\* C31: each unit of work holds exactly one permit from before its first
\* queue-status write until its work has finished or failed; permits held plus
\* permits available equal max_concurrent in every state, the permit is given
\* back on the success path and on every failure path, and when process_batch
\* has returned all max_concurrent permits are available again.
C31_PermitAccounting == [](C31_State) /\ [][C31_Step]_vars

\* the call returned Ok with every permit back after one item succeeded, one
\* failed at its provider and, while they ran, no permit was left over
C31_Witness ==
    /\ main.pc = "returned" /\ main.ret = "Ok" /\ semaphore = max_concurrent
    /\ max_concurrent >= 1
    /\ \E p, q \in Positions :
          /\ unit[p].ok /\ unit[q].error = "Api" /\ item_status[q] = "Failed"

(***************************************************************************)
(* Batch Orchestrator: the live-progress aggregate                         *)
(***************************************************************************)
\* the units that have made their progress update
Finished == {p \in Positions : unit[p].pc \in {"send", "done"}}

BothStagesCached(p) == unit[p].stage1_cached /\ unit[p].stage2_cached

C32_State ==
    /\ progress.completed = Cardinality(Finished)
    /\ progress.failed = Cardinality({p \in Finished : ~unit[p].ok})
    /\ progress.cached = Cardinality({p \in Finished : unit[p].ok /\ BothStagesCached(p)})
    /\ progress.failed + progress.cached <= progress.completed
    /\ progress.completed <= progress.total

C32_Step ==
    /\ progress' # progress =>
          \/ main.pc = "idle" /\ progress' = ProcessingProgress_new(NumItems)
          \/ \E p \in Positions :
                /\ unit[p].pc = "progress" /\ unit'[p].pc = "send"
                /\ \A q \in Positions \ {p} : unit'[q] = unit[q]
                /\ progress'.completed = progress.completed + 1
                /\ progress'.failed = progress.failed + (IF unit[p].ok THEN 0 ELSE 1)
                /\ progress'.cached =
                      progress.cached + (IF unit[p].ok /\ BothStagesCached(p) THEN 1 ELSE 0)
                /\ progress'.total = progress.total
    /\ \A p \in Positions : p \in Finished => p \in Finished'

\* C32 (as claimed): within one process_batch call each item changes the
\* live-progress aggregate exactly once, when its unit finishes; failed +
\* cached <= completed <= total in every state, and completed = total when the
\* call returns.
C32_ProgressOncePerItem ==
    /\ [](C32_State /\ (main.pc = "returned" => progress.completed = progress.total))
    /\ [][C32_Step]_vars

\* C32 (amended): the same, with completed = total when the call returns Ok;
\* a call that returns the checkpoint's error has started no unit and leaves
\* completed = 0.
C32_ProgressOncePerItemOk ==
    /\ [](/\ C32_State
          /\ (main.pc = "returned" /\ main.ret = "Ok") => progress.completed = progress.total
          /\ (main.pc = "returned" /\ main.ret = "Err") => progress.completed = 0)
    /\ [][C32_Step]_vars

\* returned Ok with one item failed (its Completed write was refused) and the
\* other served from the cache at both stages
C32_Witness ==
    /\ main.pc = "returned" /\ main.ret = "Ok"
    /\ progress = [total |-> NumItems, completed |-> NumItems, cached |-> 1, failed |-> 1]

(***************************************************************************)
(* Batch Orchestrator: the checkpoint marker                               *)
(***************************************************************************)
\* no unit of work has done anything yet: no task exists, no queue status was
\* written, nothing was looked up in or saved to the cache
NoWorkStarted ==
    /\ \A p \in Positions : unit[p] = Unspawned /\ item_status[p] = "Pending"
    /\ stage1_cache = <<>> /\ stage2_cache = <<>>
    /\ \A t \in CacheType : cache_metrics[t] = [hit_count |-> 0, miss_count |-> 0]
    /\ semaphore = max_concurrent

C33_Step ==
    (\/ item_status' # item_status
     \/ cache_metrics' # cache_metrics
     \/ stage1_cache' # stage1_cache \/ stage2_cache' # stage2_cache
     \/ \E p \in Positions : unit'[p].pc \in {"lookup", "compute", "save"}
                                /\ unit'[p] # unit[p])
       => main.checkpoint /\ main.ret # "Err"

\* C33: process_batch records the batch's checkpoint marker before any item's
\* unit of work starts: no queue-status write, cache lookup or provider call of
\* the batch precedes the checkpoint write, and when the checkpoint write fails
\* none of them happens.
C33_CheckpointFirst ==
    /\ []((~main.checkpoint \/ main.ret = "Err") => NoWorkStarted)
    /\ [][C33_Step]_vars

\* the checkpoint was recorded and a unit has been through its cache lookup
\* and its provider call
C33_Witness ==
    /\ main.checkpoint
    /\ \E p \in Positions : unit[p].pc = "save" /\ item_status[p] = "Processing1"
    /\ cache_metrics["stage1"].miss_count >= 1

(***************************************************************************)
(* Queue Store: the checkpoint log                                         *)
(***************************************************************************)
\* the rows of the log that belong to batch b
CheckpointsOf(tbl, b) == {i \in 1..Len(tbl) : tbl[i].batch_id = b}

C34_Step ==
    /\ \A i \in 1..Len(processing_checkpoints) :
          /\ Len(processing_checkpoints') >= i
          /\ processing_checkpoints'[i] = processing_checkpoints[i]
    /\ (calls' # calls /\ ret'.op = "save_checkpoint") =>
          /\ Len(processing_checkpoints') = Len(processing_checkpoints) + 1
          /\ \E b \in BatchIds, c \in CheckpointInputs :
                LET new == processing_checkpoints'[Len(processing_checkpoints')] IN
                /\ new.batch_id = b /\ new.last_processed_id = c.last_processed_id
                /\ new.stage = stage_str(c.stage)
                /\ new.checkpoint_data = <<"json", c.checkpoint_data>>
    /\ (calls' # calls /\ ret'.op = "get_latest_checkpoint") =>
          processing_checkpoints' = processing_checkpoints

\* what get_latest_checkpoint has just returned, against the log it read
C34_State ==
    ret.op = "get_latest_checkpoint" =>
       /\ ret.ok
       /\ LET v == ret.value
              rows == CheckpointsOf(processing_checkpoints, v.batch_id)
          IN IF rows = {}
             THEN v.id = 0
             ELSE /\ v.id \in rows /\ \A j \in rows : j <= v.id
                  /\ v.last_processed_id = processing_checkpoints[v.id].last_processed_id
                  /\ v.stage \in ProcessingStage
                  /\ stage_str(v.stage) = processing_checkpoints[v.id].stage
                  /\ <<"json", v.checkpoint_data>> =
                        processing_checkpoints[v.id].checkpoint_data

\* C34: get_latest_checkpoint(batch) returns the checkpoint most recently
\* appended by save_checkpoint for that batch, with the last-processed id, stage
\* and payload that were saved, and None when the batch has none; checkpoints
\* of other batches never influence the result and save_checkpoint never
\* modifies or removes earlier entries.
C34_LatestCheckpoint == [](C34_State) /\ [][C34_Step]_vars

\* the second of a batch's two checkpoints was returned although a checkpoint
\* of another batch was appended after it
C34_Witness ==
    /\ ret.op = "get_latest_checkpoint" /\ ret.ok /\ ret.value.id = 2
    /\ Len(processing_checkpoints) >= 3
    /\ processing_checkpoints[1].batch_id = ret.value.batch_id
    /\ processing_checkpoints[3].batch_id # ret.value.batch_id
    /\ processing_checkpoints[1].stage # processing_checkpoints[2].stage

(***************************************************************************)
(* Batch Orchestrator: BatchResult.cache_hits                              *)
(***************************************************************************)
\* the collected successful items that were served from the cache at both stages
FullyCachedSuccesses ==
    {k \in 1..Len(main.successful) : BothStagesCached(main.successful[k].item)}

\* C35: BatchResult.cache_hits counts exactly the successful items for which
\* both the Stage-1 and the Stage-2 result were served from the cache; an item
\* with one hit and one miss, and any failed item, is not counted, so
\* cache_hits <= |successful|.
C35_CacheHits ==
    /\ main.cache_hits = Cardinality(FullyCachedSuccesses)
    /\ main.cache_hits <= Len(main.successful)
    /\ \A k \in 1..Len(main.failed) : ~InSuccessful(main.failed[k].item)

\* returned Ok with two successful items, one of them served from the cache at
\* stage 1 only, and no cache hit counted
C35_Witness ==
    /\ main.pc = "returned" /\ main.ret = "Ok" /\ Len(main.successful) = 2
    /\ main.cache_hits = 0
    /\ \E p \in Positions :
          InSuccessful(p) /\ unit[p].stage1_cached /\ ~unit[p].stage2_cached

(***************************************************************************)
(* Queue Store: stage and status together                                  *)
(***************************************************************************)
\* C36: in every state reachable through Queue Store operations (enqueue_batch,
\* update_status, complete_stage, increment_retry in any order), an item has
\* stage Complete if and only if it has status Completed.
C36_CompleteIffCompleted ==
    \A i \in RowIds : queue[i].stage = "complete" <=> queue[i].status = "completed"

(***************************************************************************)
(* Batch Orchestrator: the progress updater                                *)
(***************************************************************************)
\* C37: on every path by which process_batch returns, the progress updater it
\* spawned has terminated or been aborted; no updater loop outlives the call
\* that started it.
C37_ReporterStopped ==
    main.pc = "returned" => main.reporter \in {"finished", "aborted"}

(***************************************************************************)
(* Batch Orchestrator: two overlapping calls                               *)
(***************************************************************************)
\* C38: when two process_batch calls overlap on the same BatchProcessor, the
\* progress aggregate they share still satisfies failed + cached <= completed
\* <= total in every reachable state, so the reporter's remaining-items
\* computation total - completed never goes below zero.
C38_SharedProgressBounds ==
    /\ progress.failed + progress.cached <= progress.completed
    /\ progress.completed <= progress.total
    /\ progress.total - progress.completed >= 0

(***************************************************************************)
(* warm_cache_for_batch: what it leaves alone                              *)
(***************************************************************************)
\* the access count of every entry of a cache table
AccessCounts(tbl) == [i \in 1..Len(tbl) |-> tbl[i].access_count]

\* C39: warm_cache_for_batch leaves the cumulative hit and miss counters and
\* every entry's access count unchanged, so get_cache_stats reports the same
\* total_hits, total_misses and hit_rate before and after a warm-up.
C39_WarmLeavesMetrics ==
    [][warm' # warm =>
          /\ cache_metrics' = cache_metrics
          /\ total_hits(cache_metrics') = total_hits(cache_metrics)
          /\ total_misses(cache_metrics') = total_misses(cache_metrics)
          /\ calculate_hit_rate(total_hits(cache_metrics'), total_misses(cache_metrics'))
                = calculate_hit_rate(total_hits(cache_metrics), total_misses(cache_metrics))
          /\ AccessCounts(stage1_cache') = AccessCounts(stage1_cache)
          /\ AccessCounts(stage2_cache') = AccessCounts(stage2_cache)]_vars

(***************************************************************************)
(* The in-memory QueueItem against the Queue Store                         *)
(***************************************************************************)
\* the row holds what the item holds
Mirrors(item, row) ==
    /\ row.status = status_to_string(item.status)
    /\ row.stage = stage_str(item.stage)
    /\ row.retry_count = item.retry_count
    /\ row.max_retries = item.max_retries

\* C40: the in-memory QueueItem transition methods (complete_stage,
\* fail_with_retry) and the Queue Store operations (complete_stage,
\* increment_retry) are the same state machine: started from the same (status,
\* stage, retry_count, max_retries), each pair yields the same resulting
\* status, stage and retry_count and the same accept/reject outcome, including
\* on an item whose stage is already Complete.
C40_SameStateMachine ==
    /\ Mirrors(queue_item.item, queue_item.row)
    /\ queue_item.item_ret.ok = queue_item.row_ret.ok
    /\ queue_item.op = "fail_with_retry" =>
          queue_item.item_ret.value = queue_item.row_ret.value

====
